---- MODULE Spec2Model ----
(***************************************************************************)
(* A model of the DAB adapter core: the jsonElement value (Json.h), the    *)
(* parameter-binding dispatcher and the adapter base class (dabClient.h)   *)
(* and the multi-device bridge (dabBridge.h).                              *)
(*                                                                         *)
(* A call of dispatch is one action; the caller's position is pc: "idle"   *)
(* before a call, "done" when the call has returned or thrown, and Return  *)
(* takes the caller back to "idle".                                        *)
(*                                                                         *)
(* Spec follows a bridge, SpecAdapter one adapter's dispatch; in both the  *)
(* telemetry worker stands still.  SpecTelemetry follows one adapter with  *)
(* its worker thread, step by step, the clock, and the adapter's           *)
(* destruction; there op, invoked and published tell what the last step    *)
(* called and published, and through the steps of a tick of the worker     *)
(* what the tick has called and published so far.                          *)
(***************************************************************************)
EXTENDS Integers, Sequences, FiniteSets, TLC

VARIABLES
    instances,        \* dabBridge::instances: deviceId -> the adapter object
    publishCallback,  \* dabBridge::publishCallback: empty, or the callable stored
    now,              \* the reading of std::chrono::steady_clock
    pc,               \* the caller: "idle" or "done"
    op,               \* the member function of the last call
    req,              \* the envelope, or the arguments, of the last call
    rsp,              \* how the last call ended: a value returned or thrown
    dispatched,       \* the adapters whose dispatch the last call entered
    invoked,          \* the methods the last call invoked: arguments and outcome
    published,        \* the messages the last call gave a publish callback
    exiting,          \* dabClient::exiting
    worker,           \* the thread telemetryThreadId: where it is in telemetryTask
    destructor,       \* the thread destroying the adapter: where it is
    stopped,          \* the ids deleteTelemetry was called for, with no addTelemetry since
    document,         \* a jsonElement the program builds
    buff,             \* the std::string serialize appended to, jsonParser reads
    quoted,           \* the argument quoteNames of the last serialize
    outcome           \* how the last jsonParser ended: the element, or what it threw

tvars == <<exiting, worker, destructor, stopped>>
jvars == <<document, buff, quoted, outcome>>

vars == <<instances, publishCallback, now, pc, op, req, rsp, dispatched, invoked, published,
          exiting, worker, destructor, stopped, document, buff, quoted, outcome>>

(***************************************************************************)
(* Strings.  A std::string is a TLA+ string; its i-th character (from 0,   *)
(* as in C++) is a string of length one.                                   *)
(***************************************************************************)

\* The printable characters in the order of their codes: 32 to 95, and 97 to
\* 126 (the character of code 96 cannot be written in a TLA+ string).
AsciiLow  == " !\"#$%&'()*+,-./0123456789:;<=>?@ABCDEFGHIJKLMNOPQRSTUVWXYZ[\\]^_"
AsciiHigh == "abcdefghijklmnopqrstuvwxyz{|}~"

CharAt(s, i) == SubSeq(s, i + 1, i + 1)

Characters ==
    {SubSeq(AsciiLow, k, k) : k \in 1..Len(AsciiLow)}
    \cup {SubSeq(AsciiHigh, k, k) : k \in 1..Len(AsciiHigh)}

Codes ==
    [c \in Characters |->
        IF \E k \in 1..Len(AsciiLow) : SubSeq(AsciiLow, k, k) = c
        THEN 31 + (CHOOSE k \in 1..Len(AsciiLow) : SubSeq(AsciiLow, k, k) = c)
        ELSE 96 + (CHOOSE k \in 1..Len(AsciiHigh) : SubSeq(AsciiHigh, k, k) = c)]

Code(c) == Codes[c]

\* The code of a character: those of Characters, and the control characters
\* a TLA+ string can hold.
ord(c) ==
    CASE c = "\t" -> 9
      [] c = "\n" -> 10
      [] c = "\f" -> 12
      [] c = "\r" -> 13
      [] OTHER    -> Code(c)

\* std::string::npos; npos + 1 = 0 as for the unsigned size_t.
npos == -1

\* std::string::find(c, pos): the first index >= pos holding c, or npos.
find(s, c, pos) ==
    LET hits == {i \in pos..(Len(s) - 1) : CharAt(s, i) = c}
    IN  IF hits = {} THEN npos ELSE CHOOSE i \in hits : \A j \in hits : i <= j

\* The suffix of s from index i on: std::string(s.c_str() + i).
substr(s, i) == SubSeq(s, i + 1, Len(s))

\* std::less<> on std::string: lexicographic by character code.
RECURSIVE StrLess(_, _)
StrLess(a, b) ==
    IF Len(b) = 0 THEN FALSE
    ELSE IF Len(a) = 0 THEN TRUE
    ELSE IF Head(a) # Head(b) THEN ord(Head(a)) < ord(Head(b))
    ELSE StrLess(Tail(a), Tail(b))

\* The keys of a std::map in the order its iterators visit them: each key
\* comes after the keys that are less than it.
InOrder(keys) ==
    LET before == {<<Cardinality({o \in keys : StrLess(o, k)}), k>> : k \in keys}
    IN  [i \in 1..Cardinality(keys) |-> (CHOOSE p \in before : p[1] = i - 1)[2]]

\* A faulty starts_with, which compares the lengths only (C9 tells it apart).
starts_with_length(string, pattern) == Len(string) >= Len(pattern)

\* dabBridge::starts_with: walk both strings while they agree.
RECURSIVE starts_with(_, _)
starts_with(string, pattern) ==
    IF Len(pattern) # 0 /\ Len(string) # 0 /\ Head(string) = Head(pattern)
    THEN starts_with(Tail(string), Tail(pattern))
    ELSE Len(pattern) = 0

(***************************************************************************)
(* jsonElement: the variant, tagged by t.                                  *)
(***************************************************************************)

Null       == [t |-> "null"]
Int64(n)   == [t |-> "int", v |-> n]
Str(s)     == [t |-> "string", v |-> s]
Bool(b)    == [t |-> "bool", v |-> b]
Object(f)  == [t |-> "object", v |-> f]
Array(s)   == [t |-> "array", v |-> s]
ArrayFlag  == [t |-> "arrayflag"]

EmptyMap == [k \in {} |-> Null]

\* What a throw statement throws.
dabException(errorCode, errorText) ==
    [what |-> "dabException", errorCode |-> errorCode, errorText |-> errorText]
CString(text) == [what |-> "char const *", text |-> text]
Pair(first, second) == [what |-> "pair", first |-> first, second |-> second]
BadFunctionCall == [what |-> "std::bad_function_call"]

\* The end of an evaluation: a value, or an exception leaving it.
Value(j)  == [kind |-> "value", value |-> j]
Throw(ex) == [kind |-> "throw", ex |-> ex]
Undefined == [kind |-> "undefined"]

\* jsonElement::has
has(j, name) ==
    /\ j.t = "object"
    /\ name \in DOMAIN j.v
    /\ j.v[name].t # "null"

\* jsonElement::operator[] ( name ) const
ConstIndex(j, name) ==
    IF has(j, name) THEN Value(j.v[name]) ELSE Throw(CString("element not found"))

\* A faulty operator[], which empties the object it is applied to (C3 tells
\* it apart).
IndexAssignFresh(j, name, x) == Object(name :> x)

\* jsonElement::operator[] ( name ) followed by an assignment of x
IndexAssign(j, name, x) ==
    LET obj == IF j.t = "object" THEN j.v ELSE EmptyMap
    IN  Object((name :> x) @@ obj)

\* jsonElement::push_back
push_back(j, x) ==
    IF j.t = "array" THEN Value(Array(Append(j.v, x)))
    ELSE IF j.t = "null" THEN Value(Array(<<x>>))
    ELSE Throw(CString("cannot be made an array"))

\* jsonElement ( std::initializer_list<jsonElement> )
RECURSIVE MergeObjects(_, _)
MergeObjects(obj, i) ==
    IF i = <<>> THEN obj
    ELSE MergeObjects(obj @@ Head(i).v, Tail(i))

InitList(i) ==
    IF Len(i) = 2 /\ i[1].t = "string"
    THEN Object(i[1].v :> i[2])
    ELSE IF \A k \in 1..Len(i) : i[k].t = "object"
    THEN Object(MergeObjects(EmptyMap, i))
    ELSE Array(SelectSeq(i, LAMBDA e : e.t # "arrayflag"))

\* The typed read accessors: operator T const () const
AsString(j) == IF j.t = "string" THEN Value(j) ELSE Throw(CString("invalid json string value"))
AsInt64(j)  == IF j.t = "int" THEN Value(j) ELSE Throw(CString("invalid json integer value"))
AsBool(j)   == IF j.t = "bool" THEN Value(j) ELSE Throw(CString("invalid json integer value"))

(***************************************************************************)
(* dabClient<T>: the operations table, the adapter object, its handlers.   *)
(***************************************************************************)

def(methName, detectFunc, callFunc, fixedParams, optionalParams) ==
    [methName |-> methName, detectFunc |-> detectFunc, callFunc |-> callFunc,
     fixedParams |-> fixedParams, optionalParams |-> optionalParams]

\* The X-macro list, in the order of the source.
METHODS == <<
    def("/operations/list", "opList", "opList", <<>>, <<>>),
    def("/applications/list", "appList", "appList", <<>>, <<>>),
    def("/applications/launch", "appLaunch", "appLaunch", <<"appId">>, <<"parameters">>),
    def("/applications/launch-with-content", "appLaunchWithContent", "appLaunchWithContent",
        <<"appId", "contentId">>, <<"parameters">>),
    def("/applications/get-state", "appGetState", "appGetState", <<"appId">>, <<>>),
    def("/applications/exit", "appExit", "appExit", <<"appId">>, <<"background">>),
    def("/device/info", "deviceInfo", "deviceInfo", <<>>, <<>>),
    def("/system/restart", "systemRestart", "systemRestart", <<>>, <<>>),
    def("/system/settings/list", "systemSettingsList", "systemSettingsList", <<>>, <<>>),
    def("/system/settings/get", "systemSettingsGet", "systemSettingsGet", <<>>, <<>>),
    def("/system/settings/set", "systemSettingsSet", "systemSettingsSet", <<"*">>, <<>>),
    def("/input/key/list", "inputKeyList", "inputKeyList", <<>>, <<>>),
    def("/input/key-press", "inputKeyPress", "inputKeyPress", <<"keyCode">>, <<>>),
    def("/input/long-key-press", "inputKeyLongPress", "inputKeyLongPress",
        <<"keyCode", "durationMs">>, <<>>),
    def("/output/image", "outputImage", "outputImage", <<>>, <<>>),
    def("/device-telemetry/start", "deviceTelemetry", "deviceTelemetryStartInternal",
        <<"duration">>, <<>>),
    def("/device-telemetry/stop", "deviceTelemetry", "deviceTelemetryStopInternal", <<>>, <<>>),
    def("/app-telemetry/start", "appTelemetry", "appTelemetryStartInternal",
        <<"appId", "duration">>, <<>>),
    def("/app-telemetry/stop", "appTelemetry", "appTelemetryStopInternal", <<"appId">>, <<>>),
    def("/health-check/get", "healthCheckGet", "healthCheckGet", <<>>, <<>>),
    def("/voice/list", "voiceList", "voiceList", <<>>, <<>>),
    def("/voice/set", "voiceSet", "voiceSet", <<"voiceSystem">>, <<>>),
    def("/voice/send-audio", "voiceSendAudio", "voiceSendAudio",
        <<"fileLocation">>, <<"voiceSystem">>),
    def("/voice/send-text", "voiceSendText", "voiceSendText",
        <<"requestText">>, <<"voiceSystem">>),
    def("/version", "version", "version", <<>>, <<>>) >>

\* Args...: the parameter types of each method, from its declaration.
Args ==
    [opList |-> <<>>, version |-> <<>>, discovery |-> <<>>,
     deviceTelemetryStartInternal |-> <<"int64_t">>,
     deviceTelemetryStopInternal |-> <<>>,
     appTelemetryStartInternal |-> <<"std::string", "int64_t">>,
     appTelemetryStopInternal |-> <<"std::string">>,
     appList |-> <<>>,
     appLaunch |-> <<"std::string", "jsonElement">>,
     appLaunchWithContent |-> <<"std::string", "std::string", "jsonElement">>,
     appGetState |-> <<"std::string">>,
     appExit |-> <<"std::string", "bool">>,
     deviceInfo |-> <<>>, systemRestart |-> <<>>,
     systemSettingsList |-> <<>>, systemSettingsGet |-> <<>>,
     systemSettingsSet |-> <<"jsonElement">>,
     inputKeyList |-> <<>>,
     inputKeyPress |-> <<"std::string">>,
     inputKeyLongPress |-> <<"std::string", "int64_t">>,
     outputImage |-> <<>>, healthCheckGet |-> <<>>, voiceList |-> <<>>,
     voiceSet |-> <<"jsonElement">>,
     voiceSendAudio |-> <<"std::string", "std::string">>,
     voiceSendText |-> <<"std::string", "std::string">>]

\* The methods of dabClient that only throw 501: the ones an adapter overrides.
Stubs ==
    {"appList", "appLaunch", "appLaunchWithContent", "appGetState", "appExit",
     "deviceInfo", "systemRestart", "systemSettingsList", "systemSettingsGet",
     "systemSettingsSet", "inputKeyList", "inputKeyPress", "inputKeyLongPress",
     "outputImage", "deviceTelemetry", "appTelemetry", "healthCheckGet",
     "voiceList", "voiceSet", "voiceSendAudio", "voiceSendText"}

\* The concrete adapter classes of the catalogue, each by the methods it
\* declares itself.
Overrides ==
    [Plain |-> {},
     Player |-> {"appList", "appLaunch", "appGetState", "appExit", "systemSettingsSet",
                 "inputKeyLongPress", "deviceTelemetry"},
     Full |-> Stubs]

Catalogue == <<"Plain", "Player", "Full">>

\* A faulty flag, without the exception for operations/list and version (C6
\* tells it apart).
implementedDeclared(T, m) == m.detectFunc \in Overrides[T]

\* !std::is_same_v<decltype(&dabClient::detectFunc), decltype(&T::detectFunc)>
\*     || !strcmp("/operations/list", methName) || !strcmp("/version", methName)
implemented(T, m) ==
    \/ m.detectFunc \in Overrides[T]
    \/ m.methName = "/operations/list"
    \/ m.methName = "/version"

\* dispatchMap.find ( key ): the position of the entry of this key, 0 for
\* end ().  A std::map is the sequence of its entries in the order of the
\* keys, which is the order its iterators visit them in.
MapFind(map, key) ==
    IF \E k \in 1..Len(map) : map[k].first = key
    THEN CHOOSE k \in 1..Len(map) : map[k].first = key
    ELSE 0

\* The map after dispatchMap.insert ( p2 ) of each of entries in turn: the
\* entries in the order of their keys; std::map::insert keeps the entry a
\* key already has, which is the first of entries with that key.
InsertAll(entries) ==
    [i \in 1..Cardinality({entries[k].first : k \in 1..Len(entries)}) |->
        entries[CHOOSE k \in 1..Len(entries) :
                   /\ \A o \in 1..(k - 1) : entries[o].first # entries[k].first
                   /\ Cardinality({entries[o].first : o \in {o \in 1..Len(entries) :
                           StrLess(entries[o].first, entries[k].first)}}) = i - 1]]

\* The map the constructor builds from T and deviceId.
BuildDispatchMap(T, deviceId) ==
    InsertAll(
        [k \in 1..Len(METHODS) |->
            [first |-> "dab/" \o deviceId \o METHODS[k].methName,
             fixedParams |-> METHODS[k].fixedParams,
             optionalParams |-> METHODS[k].optionalParams,
             callFunc |-> METHODS[k].callFunc,
             implemented |-> implemented(T, METHODS[k])]]
        \o <<[first |-> "dab/discovery",
               fixedParams |-> <<>>, optionalParams |-> <<>>,
               callFunc |-> "discovery", implemented |-> FALSE]>>)

DeviceIds == {"D1", "D2"}

\* The maps of the adapters that are constructed, by class and deviceId.
DispatchMaps ==
    [T \in DOMAIN Overrides, deviceId \in DeviceIds |-> BuildDispatchMap(T, deviceId)]

\* std::function: empty, or holding a callable.
empty == "empty"

dabClient(T, deviceId, ipAddress) ==
    [T |-> T,
     deviceId |-> deviceId,
     ipAddress |-> ipAddress,
     dispatchMap |-> DispatchMaps[T, deviceId],
     telemetryScheduler |-> EmptyMap,
     publishCallback |-> empty]

(***************************************************************************)
(* nativeDispatch: the arguments of a method, extracted from the envelope. *)
(* The result is the pack vs... the method is called with, or the          *)
(* exception the extraction throws.                                        *)
(***************************************************************************)

Pack(vs) == [kind |-> "pack", vs |-> vs]

\* Head{}: a value-initialized object of the parameter's type.
DefaultValue(type) ==
    CASE type = "std::string" -> Str("")
      [] type = "int64_t"     -> Int64(0)
      [] type = "bool"        -> Bool(FALSE)
      [] OTHER                -> Null

RECURSIVE callOptional(_, _, _, _)
callOptional(d, elem, optional, vs) ==
    IF optional < Len(d.optionalParams)
    THEN LET name    == d.optionalParams[optional + 1]
             payload == ConstIndex(elem, "payload")
         IN  IF payload.kind = "throw" THEN payload
             ELSE IF has(payload.value, name)
             THEN callOptional(d, elem, optional + 1, Append(vs, payload.value.v[name]))
             ELSE IF has(elem, name)
             THEN callOptional(d, elem, optional + 1, Append(vs, elem.v[name]))
             ELSE callOptional(d, elem, optional + 1,
                               Append(vs, DefaultValue(Args[d.callFunc][Len(vs) + 1])))
    ELSE Pack(vs)

\* A faulty callFixed, which looks at the top level of the envelope before it
\* looks in payload (C25 tells it apart).
RECURSIVE callFixedTopFirst(_, _, _, _)
callFixedTopFirst(d, elem, fixed, vs) ==
    IF fixed < Len(d.fixedParams)
    THEN LET name    == d.fixedParams[fixed + 1]
             payload == ConstIndex(elem, "payload")
         IN  IF payload.kind = "throw" THEN payload
             ELSE IF has(elem, name)
             THEN callFixedTopFirst(d, elem, fixed + 1, Append(vs, elem.v[name]))
             ELSE IF has(payload.value, name)
             THEN callFixedTopFirst(d, elem, fixed + 1, Append(vs, payload.value.v[name]))
             ELSE IF name = "*"
             THEN callFixedTopFirst(d, elem, fixed + 1, Append(vs, elem))
             ELSE Throw(dabException(400, "missing parameter \"" \o name \o "\""))
    ELSE callOptional(d, elem, 0, vs)

RECURSIVE callFixed(_, _, _, _)
callFixed(d, elem, fixed, vs) ==
    IF fixed < Len(d.fixedParams)
    THEN LET name    == d.fixedParams[fixed + 1]
             payload == ConstIndex(elem, "payload")
         IN  IF payload.kind = "throw" THEN payload
             ELSE IF has(payload.value, name)
             THEN callFixed(d, elem, fixed + 1, Append(vs, payload.value.v[name]))
             ELSE IF has(elem, name)
             THEN callFixed(d, elem, fixed + 1, Append(vs, elem.v[name]))
             ELSE IF name = "*"
             THEN callFixed(d, elem, fixed + 1, Append(vs, elem))
             ELSE Throw(dabException(400, "missing parameter \"" \o name \o "\""))
    ELSE callOptional(d, elem, 0, vs)

\* The conversion of one argument to the type of its parameter.
Convert(j, type) ==
    CASE type = "std::string" -> AsString(j)
      [] type = "int64_t"     -> AsInt64(j)
      [] type = "bool"        -> AsBool(j)
      [] OTHER                -> Value(j)

\* (cls->*funcPtr) ( vs... ): the arguments are converted before the method
\* is entered; a conversion that throws keeps the method from being called.
\* (Which of several failing conversions throws is not observable: dispatch
\* drops the text of a char const *.)
Converted(callFunc, vs, bad) ==
    IF bad = {} THEN Pack(vs)
    ELSE Convert(vs[CHOOSE k \in bad : \A o \in bad : k <= o],
                 Args[callFunc][CHOOSE k \in bad : \A o \in bad : k <= o])

Conversions(callFunc, vs) ==
    Converted(callFunc, vs,
              {k \in 1..Len(vs) : Convert(vs[k], Args[callFunc][k]).kind = "throw"})

(***************************************************************************)
(* The telemetry scheduler: a std::map from the time of the next call to   *)
(* (id, topic, executor).                                                  *)
(***************************************************************************)

\* The key of the first entry, in the order of the keys, with this id.
FirstWithId(scheduler, id) ==
    CHOOSE k \in DOMAIN scheduler :
        /\ scheduler[k].id = id
        /\ \A o \in DOMAIN scheduler : scheduler[o].id = id => k <= o

\* A faulty addTelemetry, which inserts without looking for the id (C14
\* tells it apart).
addTelemetryInsert(scheduler, interval, id, topic, getTelemetryCallback, time) ==
    IF time \in DOMAIN scheduler THEN scheduler
    ELSE scheduler @@
         (time :> [id |-> id, topic |-> topic, interval |-> interval,
                   callback |-> getTelemetryCallback])

\* A faulty addTelemetry, which schedules an id it finds anew (C15 tells it
\* apart).
addTelemetryAnew(scheduler, interval, id, topic, getTelemetryCallback, time) ==
    [k \in {k \in DOMAIN scheduler : scheduler[k].id # id} |-> scheduler[k]]
    @@ (time :> [id |-> id, topic |-> topic, interval |-> interval,
                 callback |-> getTelemetryCallback])

addTelemetry(scheduler, interval, id, topic, getTelemetryCallback, time) ==
    IF \E k \in DOMAIN scheduler : scheduler[k].id = id
    THEN [scheduler EXCEPT ![FirstWithId(scheduler, id)].interval = interval]
    ELSE scheduler @@
         (time :> [id |-> id, topic |-> topic, interval |-> interval,
                   callback |-> getTelemetryCallback])

\* A faulty deleteTelemetry, which erases the first entry whatever its id
\* (C16 tells it apart).
deleteTelemetryFirst(scheduler, id) ==
    [k \in {k \in DOMAIN scheduler : \E o \in DOMAIN scheduler : o < k} |-> scheduler[k]]

\* A faulty deleteTelemetry, which erases nothing (C17 tells it apart).
deleteTelemetryNothing(scheduler, id) == scheduler

deleteTelemetry(scheduler, id) ==
    IF \E k \in DOMAIN scheduler : scheduler[k].id = id
    THEN [k \in DOMAIN scheduler \ {FirstWithId(scheduler, id)} |-> scheduler[k]]
    ELSE scheduler

(***************************************************************************)
(* The methods.  Each gives the value returned or the exception thrown,    *)
(* and the scheduler it leaves.  user is what the body of the concrete     *)
(* adapter's own method does when the call reaches it.                     *)
(***************************************************************************)

Ends(out, scheduler) == [out |-> out, telemetryScheduler |-> scheduler]

RECURSIVE PushAll(_, _)
PushAll(j, xs) ==
    IF xs = <<>> THEN j
    ELSE PushAll(push_back(j, Head(xs)).value, Tail(xs))

\* it.first.c_str () + it.first.find ( '/', it.first.find ( '/' ) + 1 ) + 1
AfterSecondSlash(first) ==
    substr(first, find(first, "/", find(first, "/", 0) + 1) + 1)

\* elem after the loop of opList has pushed the names of these entries.
Operations(listed) ==
    IF listed = <<>> THEN Null
    ELSE IndexAssign(Null, "operations",
             PushAll(Null, [k \in 1..Len(listed) |-> Str(AfterSecondSlash(listed[k].first))]))

opList(self) == Operations(SelectSeq(self.dispatchMap, LAMBDA it : it.implemented))

protocolVersion == "2.0"

version(self) == IndexAssign(Null, "versions", PushAll(Null, <<Str(protocolVersion)>>))

discovery(self) ==
    InitList(<<InitList(<<Str("ip"), Str(self.ipAddress)>>),
               InitList(<<Str("deviceId"), Str(self.deviceId)>>)>>)

\* std::is_member_function_pointer_v<decltype ( &T::name )>: &T::name is
\* the method T declares or, T declaring none, the method T inherits from
\* dabClient<T>; it is a pointer to a member function in both cases.
is_member_function_pointer(T, name) == name \in Overrides[T] \cup Stubs

deviceTelemetryStartInternal(self, durationMs, time) ==
    IF is_member_function_pointer(self.T, "deviceTelemetry")
    THEN Ends(Value(InitList(<<InitList(<<Str("duration"), durationMs>>)>>)),
              addTelemetry(self.telemetryScheduler, durationMs.v, "",
                           "dab/" \o self.deviceId \o "/device-telemetry/metrics",
                           [func |-> "deviceTelemetry"], time))
    ELSE Ends(Throw(dabException(400, "device telemetry not supported")),
              self.telemetryScheduler)

deviceTelemetryStopInternal(self) ==
    Ends(Value(Null), deleteTelemetry(self.telemetryScheduler, ""))

appTelemetryStartInternal(self, appId, durationMs, time) ==
    IF is_member_function_pointer(self.T, "appTelemetry")
    THEN Ends(Value(InitList(<<InitList(<<Str("duration"), durationMs>>)>>)),
              addTelemetry(self.telemetryScheduler, durationMs.v, appId.v,
                           "dab/" \o self.deviceId \o "/app-telemetry/metrics/" \o appId.v,
                           [func |-> "appTelemetry", appId |-> appId.v], time))
    ELSE Ends(Throw(dabException(400, "app telemetry not supported")),
              self.telemetryScheduler)

appTelemetryStopInternal(self, appId) ==
    Ends(Value(Null), deleteTelemetry(self.telemetryScheduler, appId.v))

unsupported == Throw(dabException(501, "unsupported"))

\* (cls->*funcPtr) ( vs... ) with cls of type T: &T::callFunc is the method of
\* T where T declares one, the method of dabClient otherwise.
Call(self, callFunc, vs, user, time) ==
    CASE callFunc \in Overrides[self.T] -> Ends(user, self.telemetryScheduler)
      [] callFunc \in Stubs \ Overrides[self.T] -> Ends(unsupported, self.telemetryScheduler)
      [] callFunc = "opList" -> Ends(Value(opList(self)), self.telemetryScheduler)
      [] callFunc = "version" -> Ends(Value(version(self)), self.telemetryScheduler)
      [] callFunc = "discovery" -> Ends(Value(discovery(self)), self.telemetryScheduler)
      [] callFunc = "deviceTelemetryStartInternal" ->
            deviceTelemetryStartInternal(self, vs[1], time)
      [] callFunc = "deviceTelemetryStopInternal" -> deviceTelemetryStopInternal(self)
      [] callFunc = "appTelemetryStartInternal" ->
            appTelemetryStartInternal(self, vs[1], vs[2], time)
      [] callFunc = "appTelemetryStopInternal" -> appTelemetryStopInternal(self, vs[1])

(***************************************************************************)
(* The worker thread telemetryTask, and the mutex and the condition        *)
(* variable it shares with addTelemetry and deleteTelemetry.               *)
(***************************************************************************)

\* The worker at a line of telemetryTask; timed tells wait_until from wait,
\* until is the time wait_until was given, rsp is the local variable rsp of
\* the tick in progress.
At(line) == [pc |-> line, timed |-> FALSE, until |-> 0, rsp |-> Null]

\* A faulty lock, which the worker gives up once the telemetry is fetched
\* (C31 tells it apart).
lockedUntilFetched(thread) == thread.pc = "woken"

\* std::unique_lock l1 ( telemetryAccess ): the worker holds the mutex from
\* its wake-up to the end of the loop body; a wait releases it.
locked(thread) ==
    thread.pc \in {"woken", "publish", "extract"}

\* An exception that leaves telemetryTask leaves the function of a
\* std::thread: std::terminate () is called, and the process ends.
terminate == "std::terminate"

\* The process runs until std::terminate () is called.
Running(thread) == thread.pc # terminate

\* telemetryCondition.notify_all (): a thread that waits becomes runnable;
\* the condition variable keeps nothing for a thread that waits later.
notify_all(thread) == IF thread.pc = "waiting" THEN At("notified") ELSE thread

\* telemetryScheduler.begin ()->first
begin(scheduler) == CHOOSE k \in DOMAIN scheduler : \A o \in DOMAIN scheduler : k <= o

\* telemetryCondition.wait ( l1 ) for an empty scheduler, wait_until ( l1,
\* telemetryScheduler.begin ()->first ) otherwise.
Wait(scheduler) ==
    IF DOMAIN scheduler = {} THEN At("waiting")
    ELSE [pc |-> "waiting", timed |-> TRUE, until |-> begin(scheduler), rsp |-> Null]

\* telemetryScheduler.begin ()->first < std::chrono::steady_clock::now ()
Due(scheduler, time) == DOMAIN scheduler # {} /\ begin(scheduler) < time

\* telemetry<F>::getNextScheduledTime
getNextScheduledTime(entry, time) == time + entry.interval

\* telemetry<F>::getTelemetry: callback () calls the method of T, which is
\* the method of dabClient where T declares none.
getTelemetry(self, entry, user) ==
    IF entry.callback.func \in Overrides[self.T] THEN user ELSE unsupported

\* publish ( { { "topic", ... }, { "payload", rsp } } )
Message(topic, telemetry) ==
    InitList(<<InitList(<<Str("topic"), Str(topic)>>),
               InitList(<<Str("payload"), telemetry>>)>>)

\* telemetryScheduler.insert ( std::move ( nodeHandle ) ): std::map::insert
\* keeps the entry a key already has.
Reinsert(rest, key, entry) ==
    IF key \in DOMAIN rest THEN rest ELSE rest @@ (key :> entry)

\* The node of begin () is extracted, given its next time as key, and
\* inserted.
Reschedule(scheduler, time) ==
    Reinsert([k \in DOMAIN scheduler \ {begin(scheduler)} |-> scheduler[k]],
             getNextScheduledTime(scheduler[begin(scheduler)], time),
             scheduler[begin(scheduler)])

\* The id a telemetry start or stop is for.
Subject(callFunc, vs) ==
    IF callFunc \in {"appTelemetryStartInternal", "appTelemetryStopInternal"}
    THEN vs[1].v ELSE ""

\* Does the call reach a telemetryCondition.notify_all ()?  addTelemetry
\* does, deleteTelemetry does when it erases an entry.
Notifies(scheduler, callFunc, vs) ==
    \/ callFunc \in {"deviceTelemetryStartInternal", "appTelemetryStartInternal"}
    \/ \E k \in DOMAIN scheduler : scheduler[k].id = Subject(callFunc, vs)

\* A faulty getTopics, which does not look at the flag (C7 tells it apart).
getTopicsAll(self) ==
    [k \in 1..Len(self.dispatchMap) |-> self.dispatchMap[k].first]

\* std::vector<std::string> dabClient::getTopics
getTopics(self) ==
    LET listed == SelectSeq(self.dispatchMap, LAMBDA it : it.implemented)
    IN  [k \in 1..Len(listed) |-> listed[k].first]

\* The catch clauses of dabClient::dispatch.
Catch(ex) ==
    CASE ex.what = "pair" ->
            InitList(<<InitList(<<Str("status"), Int64(ex.first), Str("error"), Str(ex.second)>>)>>)
      [] ex.what = "dabException" ->
            InitList(<<InitList(<<Str("status"), Int64(ex.errorCode),
                                  Str("error"), Str(ex.errorText)>>)>>)
      [] OTHER ->
            InitList(<<InitList(<<Str("status"), Int64(400),
                                  Str("error"), Str("unable to parse request")>>)>>)

Returns(json, scheduler, calls) ==
    [rsp |-> json, telemetryScheduler |-> scheduler, invoked |-> calls]

\* dabClient::dispatch, from the last step to the first.  It returns a
\* jsonElement whatever happens inside.

\* The call that was made, as the adapter saw it.
Invocation(self, d, vs, end) ==
    <<[deviceId |-> self.deviceId, callFunc |-> d.callFunc, vs |-> vs, out |-> end.out]>>

\* rsp once the method has ended: status 200 is added unless rsp has a status.
Respond(self, d, vs, end) ==
    IF end.out.kind = "throw"
    THEN Returns(Catch(end.out.ex), end.telemetryScheduler, Invocation(self, d, vs, end))
    ELSE IF has(end.out.value, "status")
    THEN Returns(end.out.value, end.telemetryScheduler, Invocation(self, d, vs, end))
    ELSE Returns(IndexAssign(end.out.value, "status", Int64(200)),
                 end.telemetryScheduler, Invocation(self, d, vs, end))

\* it->second.dispatcher->operator () ( this, elem ), the arguments bound.
Invoke(self, d, conv, user, time) ==
    IF conv.kind = "throw"
    THEN Returns(Catch(conv.ex), self.telemetryScheduler, <<>>)
    ELSE Respond(self, d, conv.vs, Call(self, d.callFunc, conv.vs, user, time))

Bind(d, pack) ==
    IF pack.kind = "pack" THEN Conversions(d.callFunc, pack.vs) ELSE pack

\* The entry of the topic is looked up; no entry leaves rsp null.
Lookup(self, elem, topic, user, time) ==
    IF topic.kind = "throw"
    THEN Returns(Catch(topic.ex), self.telemetryScheduler, <<>>)
    ELSE IF MapFind(self.dispatchMap, topic.value.v) = 0
    THEN Returns(IndexAssign(Null, "status", Int64(200)), self.telemetryScheduler, <<>>)
    ELSE Invoke(self, self.dispatchMap[MapFind(self.dispatchMap, topic.value.v)],
                Bind(self.dispatchMap[MapFind(self.dispatchMap, topic.value.v)],
                     callFixed(self.dispatchMap[MapFind(self.dispatchMap, topic.value.v)],
                               elem, 0, <<>>)),
                user, time)

\* std::string const &topic = elem["topic"]
Topic(index) == IF index.kind = "throw" THEN index ELSE AsString(index.value)

dispatch(self, elem, user, time) ==
    Lookup(self, elem, Topic(ConstIndex(elem, "topic")), user, time)

(***************************************************************************)
(* dabBridge<C...>                                                         *)
(***************************************************************************)

Ended(out, adapters, entered, calls, messages) ==
    [out |-> out, instances |-> adapters, dispatched |-> entered,
     invoked |-> calls, published |-> messages]

\* What the bridge returns of the response r of the adapter registered
\* under id.
Delegated(adapters, id, r) ==
    Ended(Value(r.rsp),
          [adapters EXCEPT ![id].telemetryScheduler = r.telemetryScheduler],
          <<id>>, r.invoked, <<>>)

\* A faulty delegation, to the first adapter of the registry whatever the
\* deviceId (C8 tells it apart).
DelegateFirst(adapters, id, json, user, time) ==
    Delegated(adapters, InOrder(DOMAIN adapters)[1],
              dispatch(adapters[InOrder(DOMAIN adapters)[1]], json, user, time))

\* it->second->dispatch ( json ) on the adapter registered under id
Delegate(adapters, id, json, user, time) ==
    Delegated(adapters, id, dispatch(adapters[id], json, user, time))

\* The dab/discovery branch: the adapters after the first give their
\* response to publishCallback, the first one's response is returned.  With
\* no adapter, it++ steps past end(): the behaviour is undefined.  An empty
\* std::function throws std::bad_function_call when it is called.
RECURSIVE Calls(_, _)
Calls(answers, ids) ==
    IF ids = <<>> THEN <<>>
    ELSE answers[Head(ids)].invoked \o Calls(answers, Tail(ids))

\* A faulty fan-out, which publishes the response of the first adapter too
\* (C11 tells it apart).
DiscoveredAll(adapters, callback, ids, answers) ==
    IF ids = <<>>
    THEN Ended(Undefined, adapters, <<>>, <<>>, <<>>)
    ELSE Ended(Value(answers[ids[1]].rsp), adapters, ids, Calls(answers, ids),
               [k \in 1..Len(ids) |-> answers[ids[k]].rsp])

\* ids are the keys of instances in order, answers what dispatch gives for
\* each of them.
Discovered(adapters, callback, ids, answers) ==
    IF ids = <<>>
    THEN Ended(Undefined, adapters, <<>>, <<>>, <<>>)
    ELSE IF Len(ids) > 1 /\ callback = empty
    THEN Ended(Throw(BadFunctionCall), adapters, <<ids[2]>>,
               Calls(answers, <<ids[2]>>), <<>>)
    ELSE Ended(Value(answers[ids[1]].rsp), adapters,
               Tail(ids) \o <<ids[1]>>,
               Calls(answers, Tail(ids) \o <<ids[1]>>),
               [k \in 1..(Len(ids) - 1) |-> answers[ids[k + 1]].rsp])

Discover(adapters, callback, json, user, time) ==
    Discovered(adapters, callback, InOrder(DOMAIN adapters),
               [id \in DOMAIN adapters |-> dispatch(adapters[id], json, user, time)])

\* dabBridge::dispatch
dabBridge_dispatch(adapters, callback, json, user, time) ==
    IF has(json, "topic")
    THEN LET topic == AsString(json.v["topic"])
         IN  IF topic.kind = "throw"
             THEN Ended(topic, adapters, <<>>, <<>>, <<>>)
             ELSE IF topic.value.v = "dab/discovery"
             THEN Discover(adapters, callback, json, user, time)
             ELSE IF starts_with(topic.value.v, "dab/")
             THEN LET slashPos == find(substr(topic.value.v, 4), "/", 0)
                      deviceId == SubSeq(topic.value.v, 5, 4 + slashPos)
                  IN  IF slashPos = npos
                      THEN Ended(Throw(dabException(400, "topic is malformed")),
                                 adapters, <<>>, <<>>, <<>>)
                      ELSE IF deviceId \in DOMAIN adapters
                      THEN Delegate(adapters, deviceId, json, user, time)
                      ELSE Ended(Throw(dabException(400, "deviceId does not exist")),
                                 adapters, <<>>, <<>>, <<>>)
             ELSE Ended(Throw(dabException(400, "topic is malformed")),
                        adapters, <<>>, <<>>, <<>>)
    ELSE Ended(Throw(dabException(400, "no topic found")), adapters, <<>>, <<>>, <<>>)

\* makeInstances: the first type of the catalogue whose isCompatible accepts
\* the first extra argument; compatible is the set of types that accept it.
RECURSIVE makeInstances(_, _, _, _, _)
makeInstances(adapters, deviceId, types, compatible, ipAddress) ==
    IF types = <<>>
    THEN [out |-> Throw(dabException(400, "no compatible devices found")),
          instances |-> adapters]
    ELSE IF Head(types) \in compatible
    THEN [out |-> Value(Str(deviceId)),
          instances |-> adapters @@ (deviceId :> dabClient(Head(types), deviceId, ipAddress))]
    ELSE makeInstances(adapters, deviceId, Tail(types), compatible, ipAddress)

\* dabBridge::setPublishCallback
setPublishCallback(adapters, f) ==
    [id \in DOMAIN adapters |-> [adapters[id] EXCEPT !.publishCallback = f]]

(***************************************************************************)
(* The calls that are made: the envelopes, and what the methods of the     *)
(* concrete adapters do.                                                   *)
(***************************************************************************)

\* The most parameters of a request that are placed otherwise than in payload.
MaxElsewhere == 1

IpAddresses == {"10.0.0.1", "10.0.0.2"}
Callbacks == {"f"}

\* The clock is followed from 0 to MaxTime.
MaxTime == 3

\* The telemetry requests: the durations in ms, and the applications.
Durations == {1, 2}
AppIds == {"p"}

TelemetryCalls ==
    {[callFunc |-> "deviceTelemetryStartInternal", vs |-> <<Int64(d)>>] : d \in Durations}
    \cup {[callFunc |-> "appTelemetryStartInternal", vs |-> <<Str(a), Int64(d)>>] :
             a \in AppIds, d \in Durations}
    \cup {[callFunc |-> "deviceTelemetryStopInternal", vs |-> <<>>]}
    \cup {[callFunc |-> "appTelemetryStopInternal", vs |-> <<Str(a)>>] : a \in AppIds}

\* What deviceTelemetry and appTelemetry of the concrete adapter do: return
\* the telemetry, or throw.
TelemetryOutcomes == {Value(Object("cpu" :> Int64(7))), Throw(dabException(500, "oops"))}

\* The classes of the adapter whose worker is followed: one that declares
\* no method of its own, and one that declares them all.
TelemetryClasses == {"Plain", "Full"}

\* What the body of an adapter's own method may do.
UserOutcomes ==
    {Value(Null),
     Value(Object("started" :> Bool(TRUE))),
     Value(Object(("state" :> Str("X")) @@ ("status" :> Int64(207)))),
     Value(Object(("a" :> Int64(1)) @@ ("status" :> Null))),
     Value(Str("done")),
     Throw(dabException(500, "oops")),
     Throw(Pair(404, "none")),
     Throw(CString("boom"))}

\* Where a request carries a parameter, and the member "payload" it has.
Placements == {"absent", "payload", "top", "both", "payloadNull", "nullAndTop",
               "payloadWrong"}
PayloadKinds == {"absent", "null", "number", "object"}

InPayload(type) ==
    CASE type = "std::string" -> Str("p")
      [] type = "int64_t"     -> Int64(1)
      [] type = "bool"        -> Bool(TRUE)
      [] OTHER                -> Object("k" :> Int64(1))

AtTop(type) ==
    CASE type = "std::string" -> Str("t")
      [] type = "int64_t"     -> Int64(2)
      [] type = "bool"        -> Bool(FALSE)
      [] OTHER                -> Str("whole")

WrongType(type) ==
    CASE type = "std::string" -> Int64(5)
      [] type = "int64_t"     -> Str("5")
      [] type = "bool"        -> Int64(1)
      [] OTHER                -> Array(<<>>)

Envelope(topic, names, types, kind, place) ==
    LET at(n) == CHOOSE k \in 1..Len(names) : names[k] = n
        top == {names[k] : k \in {k \in 1..Len(names) : place[k] \in {"top", "both", "nullAndTop"}}}
        inner == {names[k] : k \in {k \in 1..Len(names) :
                                        place[k] \notin {"absent", "top"}}}
        payload ==
            CASE kind = "object" ->
                    "payload" :> Object([n \in inner |->
                        CASE place[at(n)] \in {"payloadNull", "nullAndTop"} -> Null
                          [] place[at(n)] = "payloadWrong" -> WrongType(types[at(n)])
                          [] OTHER                         -> InPayload(types[at(n)])])
              [] kind = "null"   -> "payload" :> Null
              [] kind = "number" -> "payload" :> Int64(5)
              [] OTHER           -> EmptyMap
    IN  Object(("topic" :> Str(topic)) @@ payload @@ [n \in top |-> AtTop(types[at(n)])])

\* The requests for one operation of the table.
RequestsFor(topic, m) ==
    LET names == m.fixedParams \o m.optionalParams
        types == Args[m.callFunc]
    IN  {Envelope(topic, names, types, kind, place) :
            kind \in PayloadKinds,
            place \in {f \in [1..Len(names) -> Placements] :
                          Cardinality({k \in 1..Len(names) : f[k] # "payload"}) <= MaxElsewhere}}

\* Envelopes no operation is found for, or no topic is read from.
Strays(deviceId) ==
    {Object("topic" :> Str("dab/" \o deviceId \o "/nope")),
     Object("topic" :> Str("dab/" \o deviceId \o "/")),
     Object("topic" :> Str("dab/other/version")),
     Object("topic" :> Int64(7)),
     Object("topic" :> Null),
     Object("payload" :> Object(EmptyMap)),
     Array(<<Str("topic")>>)}

Discovery == [methName |-> "", callFunc |-> "discovery", fixedParams |-> <<>>,
              optionalParams |-> <<>>]

\* The envelopes given to the adapter of this deviceId.
RequestsTo(deviceId) ==
    UNION {RequestsFor("dab/" \o deviceId \o METHODS[k].methName, METHODS[k]) :
              k \in 1..Len(METHODS)}
    \cup RequestsFor("dab/discovery", Discovery)
    \cup Strays(deviceId)

Requests == [deviceId \in DeviceIds |-> RequestsTo(deviceId)]

\* The envelopes given to the bridge: the topics of a few operations, for
\* the deviceIds in use and two others, and topics of no device.
BridgeTopics ==
    {"dab/" \o id \o suffix :
        id \in DeviceIds \cup {"XYZ", ""},
        suffix \in {"/version", "/operations/list", "/device-telemetry/start",
                    "/device-telemetry/stop", "/applications/get-state", "/nope", "/", ""}}
    \cup {"dab/discovery", "dab/discovery/", "dab", "", "xab/D1/version", "/dab/D1/version",
          "DAB/D1/version"}

BridgeRequests ==
    {Object(("topic" :> Str(topic)) @@ payload) :
        topic \in BridgeTopics,
        payload \in {EmptyMap,
                     "payload" :> Object(("duration" :> Int64(1)) @@ ("appId" :> Str("p")))}}
    \cup {Object("topic" :> Int64(7)),
          Object("topic" :> Null),
          Object("payload" :> Object(EmptyMap)),
          Array(<<Str("topic")>>),
          Null}

\* Does the call reach a method the adapter's class declares itself?
Reached(T, calls) == \E k \in 1..Len(calls) : calls[k].callFunc \in Overrides[T]

ReachesUser(self, elem) == Reached(self.T, dispatch(self, elem, Value(Null), 0).invoked)

UserChoices(adapters, ids, elem) ==
    IF \E id \in ids : ReachesUser(adapters[id], elem)
    THEN UserOutcomes ELSE {Value(Null)}

(***************************************************************************)
(* The actions.                                                            *)
(***************************************************************************)

\* The threads of an adapter that has been constructed: the worker is at the
\* head of its loop, nobody destroys the adapter.
Constructed ==
    /\ exiting = FALSE
    /\ worker = At("while")
    /\ destructor = "alive"
    /\ stopped = {}

\* No JSON text has been written or read.
Unread ==
    /\ buff = ""
    /\ quoted = TRUE
    /\ outcome = Undefined

Idle ==
    /\ pc = "idle"
    /\ op = "none"
    /\ req = Null
    /\ rsp = Undefined
    /\ dispatched = <<>>
    /\ invoked = <<>>
    /\ published = <<>>

\* A bridge with no instance yet.
Init ==
    /\ instances = EmptyMap
    /\ publishCallback = empty
    /\ now = 0
    /\ Idle
    /\ Constructed
    /\ document = Null
    /\ Unread

\* One adapter, constructed.
InitAdapter ==
    /\ \E T \in DOMAIN Overrides, deviceId \in {"D1"}, ipAddress \in IpAddresses :
          instances = (deviceId :> dabClient(T, deviceId, ipAddress))
    /\ publishCallback = empty
    /\ now = 0
    /\ Idle
    /\ Constructed
    /\ document = Null
    /\ Unread

\* bridge.makeDeviceInstance ( deviceId, ipAddress )
MakeDeviceInstance ==
    /\ pc = "idle"
    /\ \E deviceId \in DeviceIds, ipAddress \in IpAddresses,
          compatible \in SUBSET DOMAIN Overrides :
       \E r \in {makeInstances(instances, deviceId, Catalogue, compatible, ipAddress)} :
              /\ instances' = r.instances
              /\ rsp' = r.out
              /\ req' = [deviceId |-> deviceId, ipAddress |-> ipAddress,
                          isCompatible |-> compatible]
    /\ pc' = "done"
    /\ op' = "dabBridge::makeDeviceInstance"
    /\ dispatched' = <<>>
    /\ invoked' = <<>>
    /\ published' = <<>>
    /\ UNCHANGED <<publishCallback, now>>
    /\ UNCHANGED tvars
    /\ UNCHANGED jvars

\* bridge.setPublishCallback ( f )
SetPublishCallback ==
    /\ pc = "idle"
    /\ \E f \in Callbacks :
          /\ instances' = setPublishCallback(instances, f)
          /\ publishCallback' = f
          /\ req' = Str(f)
    /\ pc' = "done"
    /\ op' = "dabBridge::setPublishCallback"
    /\ rsp' = Value(Null)
    /\ dispatched' = <<>>
    /\ invoked' = <<>>
    /\ published' = <<>>
    /\ UNCHANGED now
    /\ UNCHANGED tvars
    /\ UNCHANGED jvars

\* bridge.dispatch ( json )
BridgeDispatch ==
    /\ pc = "idle"
    /\ \E json \in BridgeRequests :
       \E user \in UserChoices(instances, DOMAIN instances, json) :
       \E r \in {dabBridge_dispatch(instances, publishCallback, json, user, now)} :
              /\ instances' = r.instances
              /\ rsp' = r.out
              /\ dispatched' = r.dispatched
              /\ invoked' = r.invoked
              /\ published' = r.published
              /\ req' = json
    /\ pc' = "done"
    /\ op' = "dabBridge::dispatch"
    /\ UNCHANGED <<publishCallback, now>>
    /\ UNCHANGED tvars
    /\ UNCHANGED jvars

\* adapter.dispatch ( elem ) on an adapter object
AdapterDispatch ==
    /\ pc = "idle"
    /\ \E id \in DOMAIN instances :
       \E elem \in Requests[id] :
       \E user \in UserChoices(instances, {id}, elem) :
       \E r \in {Delegate(instances, id, elem, user, now)} :
              /\ instances' = r.instances
              /\ rsp' = r.out
              /\ dispatched' = r.dispatched
              /\ invoked' = r.invoked
              /\ published' = r.published
              /\ req' = elem
    /\ pc' = "done"
    /\ op' = "dabClient::dispatch"
    /\ UNCHANGED <<publishCallback, now>>
    /\ UNCHANGED tvars
    /\ UNCHANGED jvars

\* The caller takes the result.
Return ==
    /\ pc = "done"
    /\ pc' = "idle"
    /\ op' = "none"
    /\ req' = Null
    /\ rsp' = Undefined
    /\ dispatched' = <<>>
    /\ invoked' = <<>>
    /\ published' = <<>>
    /\ UNCHANGED <<instances, publishCallback, now>>
    /\ UNCHANGED tvars
    /\ UNCHANGED jvars

(***************************************************************************)
(* One adapter with its worker thread: telemetry is started and stopped,   *)
(* the clock advances, the worker runs, and the adapter is destroyed.      *)
(***************************************************************************)

\* An adapter, constructed, as a bridge holds it: made before
\* setPublishCallback ( f ) and given f, or made after it and given nothing.
InitTelemetry ==
    /\ \E T \in TelemetryClasses, ipAddress \in IpAddresses, f \in Callbacks \cup {empty} :
          instances = ("D1" :> [dabClient(T, "D1", ipAddress) EXCEPT
                                   !.publishCallback = f])
    /\ publishCallback = "f"
    /\ now = 0
    /\ Idle
    /\ Constructed
    /\ document = Null
    /\ Unread

\* A step that is no call and publishes nothing.
Quiet ==
    /\ op' = "none"
    /\ req' = Null
    /\ rsp' = Undefined
    /\ dispatched' = <<>>
    /\ invoked' = <<>>
    /\ published' = <<>>

\* std::chrono::steady_clock advances.
Tick ==
    /\ now < MaxTime
    /\ now' = now + 1
    /\ Quiet
    /\ UNCHANGED <<instances, publishCallback, pc, exiting, worker, destructor, stopped>>
    /\ UNCHANGED jvars

\* device-telemetry/start and stop, app-telemetry/start and stop: the
\* method runs with telemetryAccess locked.
TelemetryCall ==
    /\ Running(worker)
    /\ destructor = "alive"
    /\ ~locked(worker)
    /\ \E c \in TelemetryCalls :
       \E r \in {Call(instances["D1"], c.callFunc, c.vs, Value(Null), now)} :
          /\ instances' = [instances EXCEPT !["D1"].telemetryScheduler = r.telemetryScheduler]
          /\ op' = "dabClient::" \o c.callFunc
          /\ req' = Array(c.vs)
          /\ rsp' = r.out
          /\ worker' = IF Notifies(instances["D1"].telemetryScheduler, c.callFunc, c.vs)
                       THEN notify_all(worker) ELSE worker
          /\ stopped' = IF c.callFunc \in {"deviceTelemetryStopInternal",
                                            "appTelemetryStopInternal"}
                        THEN stopped \cup {Subject(c.callFunc, c.vs)}
                        ELSE stopped \ {Subject(c.callFunc, c.vs)}
    /\ dispatched' = <<>>
    /\ invoked' = <<>>
    /\ published' = <<>>
    /\ UNCHANGED <<publishCallback, now, pc, exiting, destructor>>
    /\ UNCHANGED jvars

\* while ( !exiting )
WorkerWhile ==
    /\ worker.pc = "while"
    /\ worker' = IF exiting THEN At("exited") ELSE At("lock")
    /\ Quiet
    /\ UNCHANGED <<instances, publishCallback, now, pc, exiting, destructor, stopped>>
    /\ UNCHANGED jvars

\* The mutex is locked and the wait entered, which unlocks it.
WorkerWait ==
    /\ worker.pc = "lock"
    /\ worker' = Wait(instances["D1"].telemetryScheduler)
    /\ Quiet
    /\ UNCHANGED <<instances, publishCallback, now, pc, exiting, destructor, stopped>>
    /\ UNCHANGED jvars

\* The wait returns, the mutex locked again: after a notification, or at
\* the time wait_until was given.
WorkerWake ==
    /\ \/ worker.pc = "notified"
       \/ worker.pc = "waiting" /\ worker.timed /\ now >= worker.until
    /\ worker' = At("woken")
    /\ Quiet
    /\ UNCHANGED <<instances, publishCallback, now, pc, exiting, destructor, stopped>>
    /\ UNCHANGED jvars

\* A wait may return with no notification and before its time.
SpuriousWake ==
    /\ worker.pc = "waiting"
    /\ ~(worker.timed /\ now >= worker.until)
    /\ worker' = At("woken")
    /\ Quiet
    /\ UNCHANGED <<instances, publishCallback, now, pc, exiting, destructor, stopped>>
    /\ UNCHANGED jvars

\* The call of the producer of the first entry, as the worker made it.
Produced(entry, out) ==
    <<[deviceId |-> "D1", callFunc |-> entry.callback.func, id |-> entry.id, out |-> out]>>

\* The first entry is due: auto rsp = ...->getTelemetry ().  What the
\* producer throws leaves telemetryTask.  From here to the end of the tick,
\* invoked and published tell what the tick has called and published so far.
WorkerGetTelemetry ==
    /\ worker.pc = "woken"
    /\ Due(instances["D1"].telemetryScheduler, now)
    /\ \E user \in TelemetryOutcomes :
       \E entry \in {instances["D1"].telemetryScheduler[begin(instances["D1"].telemetryScheduler)]} :
       \E r \in {getTelemetry(instances["D1"], entry, user)} :
          /\ invoked' = Produced(entry, r)
          /\ worker' = IF r.kind = "throw" THEN At(terminate)
                       ELSE [At("publish") EXCEPT !.rsp = r.value]
          /\ rsp' = IF r.kind = "throw" THEN r ELSE Undefined
    /\ op' = "telemetryExecutor::getTelemetry"
    /\ req' = Null
    /\ dispatched' = <<>>
    /\ published' = <<>>
    /\ UNCHANGED <<instances, publishCallback, now, pc, exiting, destructor, stopped>>
    /\ UNCHANGED jvars

\* publish ( { { "topic", ... }, { "payload", rsp } } ): the adapter's
\* publishCallback is called; an empty std::function throws
\* std::bad_function_call, which leaves telemetryTask.
WorkerPublish ==
    /\ worker.pc = "publish"
    /\ \E entry \in {instances["D1"].telemetryScheduler[begin(instances["D1"].telemetryScheduler)]} :
          /\ invoked' = Produced(entry, Value(worker.rsp))
          /\ published' = IF instances["D1"].publishCallback = empty THEN <<>>
                          ELSE <<Message(entry.topic, worker.rsp)>>
    /\ worker' = IF instances["D1"].publishCallback = empty THEN At(terminate)
                 ELSE [At("extract") EXCEPT !.rsp = worker.rsp]
    /\ rsp' = IF instances["D1"].publishCallback = empty THEN Throw(BadFunctionCall)
              ELSE Undefined
    /\ op' = "dabInterface::publish"
    /\ req' = Null
    /\ dispatched' = <<>>
    /\ UNCHANGED <<instances, publishCallback, now, pc, exiting, destructor, stopped>>
    /\ UNCHANGED jvars

\* The node of the first entry is extracted and inserted for its next time:
\* the tick is over, and the loop body ends.
WorkerFire ==
    /\ worker.pc = "extract"
    /\ \E entry \in {instances["D1"].telemetryScheduler[begin(instances["D1"].telemetryScheduler)]} :
          /\ invoked' = Produced(entry, Value(worker.rsp))
          /\ published' = <<Message(entry.topic, worker.rsp)>>
    /\ instances' = [instances EXCEPT !["D1"].telemetryScheduler =
                         Reschedule(instances["D1"].telemetryScheduler, now)]
    /\ worker' = At("while")
    /\ op' = "dabClient::telemetryTask"
    /\ req' = Null
    /\ rsp' = Undefined
    /\ dispatched' = <<>>
    /\ UNCHANGED <<publishCallback, now, pc, exiting, destructor, stopped>>
    /\ UNCHANGED jvars

\* Nothing is due: the loop body ends.
WorkerSkip ==
    /\ worker.pc = "woken"
    /\ ~Due(instances["D1"].telemetryScheduler, now)
    /\ worker' = At("while")
    /\ Quiet
    /\ UNCHANGED <<instances, publishCallback, now, pc, exiting, destructor, stopped>>
    /\ UNCHANGED jvars

\* The adapter is destroyed: the destructor of the concrete class T runs,
\* then the destructor of dabClient.
DestroyConcrete ==
    /\ Running(worker)
    /\ destructor = "alive"
    /\ destructor' = "~T"
    /\ Quiet
    /\ UNCHANGED <<instances, publishCallback, now, pc, exiting, worker, stopped>>
    /\ UNCHANGED jvars

\* exiting = true
SetExiting ==
    /\ Running(worker)
    /\ destructor = "~T"
    /\ destructor' = "~dabClient"
    /\ exiting' = TRUE
    /\ Quiet
    /\ UNCHANGED <<instances, publishCallback, now, pc, worker, stopped>>
    /\ UNCHANGED jvars

\* telemetryCondition.notify_all ()
NotifyWorker ==
    /\ Running(worker)
    /\ destructor = "~dabClient"
    /\ destructor' = "join"
    /\ worker' = notify_all(worker)
    /\ Quiet
    /\ UNCHANGED <<instances, publishCallback, now, pc, exiting, stopped>>
    /\ UNCHANGED jvars

\* telemetryThreadId.join () returns when the worker has left telemetryTask.
Join ==
    /\ destructor = "join"
    /\ worker.pc = "exited"
    /\ destructor' = "joined"
    /\ Quiet
    /\ UNCHANGED <<instances, publishCallback, now, pc, exiting, worker, stopped>>
    /\ UNCHANGED jvars

Next ==
    \/ MakeDeviceInstance
    \/ SetPublishCallback
    \/ BridgeDispatch
    \/ Return

Spec == Init /\ [][Next]_vars

NextAdapter ==
    \/ AdapterDispatch
    \/ Return

SpecAdapter == InitAdapter /\ [][NextAdapter]_vars

NextTelemetry ==
    \/ Tick
    \/ TelemetryCall
    \/ WorkerWhile
    \/ WorkerWait
    \/ WorkerWake
    \/ SpuriousWake
    \/ WorkerGetTelemetry
    \/ WorkerPublish
    \/ WorkerFire
    \/ WorkerSkip
    \/ DestroyConcrete
    \/ SetExiting
    \/ NotifyWorker
    \/ Join

SpecTelemetry == InitTelemetry /\ [][NextTelemetry]_vars

\* A wait_until returns in the end, the clock being past its time or not.
TimedWaitReturns == worker.timed /\ SpuriousWake

\* The threads are scheduled: a thread that can take its next step takes it
\* in the end, and the clock advances up to MaxTime.  Nothing makes a call
\* come or a wait with no time return unnotified.
Scheduled ==
    /\ WF_vars(Tick)
    /\ WF_vars(WorkerWhile)
    /\ WF_vars(WorkerWait)
    /\ WF_vars(WorkerWake)
    /\ WF_vars(TimedWaitReturns)
    /\ WF_vars(WorkerGetTelemetry)
    /\ WF_vars(WorkerPublish)
    /\ WF_vars(WorkerFire)
    /\ WF_vars(WorkerSkip)
    /\ WF_vars(SetExiting)
    /\ WF_vars(NotifyWorker)
    /\ WF_vars(Join)

SpecTelemetryFair == InitTelemetry /\ [][NextTelemetry]_vars /\ Scheduled

(***************************************************************************)
(* The properties.  A call that has ended is seen at pc = "done": req is   *)
(* its envelope, rsp its end, invoked the methods it called.               *)
(***************************************************************************)

AdapterCalled == pc = "done" /\ op = "dabClient::dispatch"
BridgeCalled  == pc = "done" /\ op = "dabBridge::dispatch"

\* The adapter object the call was made on.
Self == instances[dispatched[1]]

\* The topic of the request is a string and an operation of the adapter.
TopicFound ==
    /\ has(req, "topic")
    /\ req.v["topic"].t = "string"
    /\ MapFind(Self.dispatchMap, req.v["topic"].v) # 0

Descriptor == Self.dispatchMap[MapFind(Self.dispatchMap, req.v["topic"].v)]

\* The flag the adapter keeps for the operation of this topic.
Flag(self, topic) == self.dispatchMap[MapFind(self.dispatchMap, topic)].implemented

\* The object { "status": status, "error": error }.
ErrorObject(status, error) ==
    Object(("status" :> Int64(status)) @@ ("error" :> Str(error)))

\* The array [ [ "status", status, "error", error ] ].
ErrorArray(status, error) ==
    Array(<<Array(<<Str("status"), Int64(status), Str("error"), Str(error)>>)>>)

\* Where a request supplies a parameter: in payload, or else at top level.
InPayloadObject(name) == has(req, "payload") /\ has(req.v["payload"], name)
Supplied(name) == InPayloadObject(name) \/ has(req, name)
SuppliedValue(name) ==
    IF InPayloadObject(name) THEN req.v["payload"].v[name] ELSE req.v[name]

\* C1: for an operation with a fixed parameter N other than "*", a request
\* whose payload is an object without (non-null) N, and without N at top
\* level, N being the first parameter that is missing, is answered with the
\* object { "status": 400, "error": "missing parameter \"N\"" } and the
\* handler is not invoked.
C1_MissingParameterObject ==
    (AdapterCalled /\ TopicFound) =>
        \A k \in 1..Len(Descriptor.fixedParams) :
            LET N == Descriptor.fixedParams[k]
            IN  (/\ N # "*"
                 /\ "payload" \in DOMAIN req.v
                 /\ req.v["payload"].t = "object"
                 /\ ~Supplied(N)
                 /\ \A j \in 1..(k - 1) : Supplied(Descriptor.fixedParams[j]))
                => /\ rsp = Value(ErrorObject(400, "missing parameter \"" \o N \o "\""))
                   /\ invoked = <<>>

\* What dispatch answers instead: an array holding one array of four elements.
C1_MissingParameterArray ==
    /\ AdapterCalled
    /\ req = Object(("topic" :> Str("dab/D1/applications/get-state"))
                    @@ ("payload" :> Object(EmptyMap)))
    /\ rsp = Value(ErrorArray(400, "missing parameter \"appId\""))
    /\ invoked = <<>>

\* The arguments a request binds, in the order of the declaration: the
\* fixed parameters, then the optional ones.
Names == Descriptor.fixedParams \o Descriptor.optionalParams
Types == Args[Descriptor.callFunc]

Bound ==
    [k \in 1..Len(Names) |->
        IF Supplied(Names[k]) THEN SuppliedValue(Names[k])
        ELSE IF Names[k] = "*" THEN req
        ELSE DefaultValue(Types[k])]

\* Every fixed parameter is supplied, non-null and of the declared type (an
\* optional one that is supplied is of the declared type too).
AllFixedSupplied ==
    /\ \A k \in 1..Len(Descriptor.fixedParams) :
          Names[k] = "*" \/ Supplied(Names[k])
    /\ \A k \in 1..Len(Names) : Convert(Bound[k], Types[k]).kind = "value"

\* C2: when every fixed parameter is present, in payload or at top level,
\* whether or not the envelope has a payload member, the handler is invoked
\* exactly once with the bound values in declaration order, and the response
\* has status 200 when the handler's result has no status.
C2_AllFixedPresentInvokes ==
    (AdapterCalled /\ TopicFound /\ AllFixedSupplied) =>
        /\ Len(invoked) = 1
        /\ invoked[1].callFunc = Descriptor.callFunc
        /\ invoked[1].vs = Bound
        /\ (invoked[1].out.kind = "value" /\ ~has(invoked[1].out.value, "status"))
           => /\ rsp.kind = "value"
              /\ has(rsp.value, "status")
              /\ rsp.value.v["status"] = Int64(200)

\* What dispatch does with no payload member: reading payload throws, the
\* handler is not invoked and the answer is the 400 of the catch-all clause.
C2_NoPayloadUnparsed ==
    /\ AdapterCalled
    /\ req = Object(("topic" :> Str("dab/D1/applications/get-state"))
                    @@ ("appId" :> Str("t")))
    /\ rsp = Value(ErrorArray(400, "unable to parse request"))
    /\ invoked = <<>>

\* C3: the response to a handler result that is an object has every field of
\* the result unchanged (a null status counts as no status) and no other
\* field but status; its status is the handler's when the handler gave a
\* non-null one, and 200 otherwise; a handler that returns no value is
\* answered with exactly { "status": 200 }.
C3_ResultMerged ==
    (AdapterCalled /\ Len(invoked) = 1 /\ invoked[1].out.kind = "value") =>
        LET result == invoked[1].out.value
        IN  /\ rsp.kind = "value"
            /\ result.t = "object" =>
                  /\ rsp.value.t = "object"
                  /\ DOMAIN rsp.value.v = DOMAIN result.v \cup {"status"}
                  /\ \A f \in DOMAIN result.v :
                        (f # "status" \/ result.v[f].t # "null")
                        => rsp.value.v[f] = result.v[f]
                  /\ ~has(result, "status") => rsp.value.v["status"] = Int64(200)
            /\ result.t = "null" => rsp.value = Object("status" :> Int64(200))

\* A handler's own status is in the response, with its other field.
C3_StatusKept ==
    /\ AdapterCalled
    /\ Len(invoked) = 1
    /\ invoked[1].out = Value(Object(("state" :> Str("X")) @@ ("status" :> Int64(207))))
    /\ rsp = Value(Object(("state" :> Str("X")) @@ ("status" :> Int64(207))))

\* C4: dispatch on an adapter always returns; when the handler throws
\* dabException(code, text) the response is the object { "status": code,
\* "error": text }, when it throws anything else the response is the object
\* { "status": 400, "error": "unable to parse request" }, and an exception of
\* the parameter binding is answered with the object of its kind.
C4_ErrorsBecomeObjects ==
    AdapterCalled =>
        /\ rsp.kind = "value"
        /\ \A k \in 1..Len(invoked) :
              invoked[k].out.kind = "throw" =>
                 IF invoked[k].out.ex.what = "dabException"
                 THEN rsp.value = ErrorObject(invoked[k].out.ex.errorCode,
                                              invoked[k].out.ex.errorText)
                 ELSE rsp.value = ErrorObject(400, "unable to parse request")
        /\ (TopicFound /\ invoked = <<>>) =>
              rsp.value \in
                  {ErrorObject(400, "missing parameter \"" \o Names[k] \o "\"") :
                      k \in 1..Len(Descriptor.fixedParams)}
                  \cup {ErrorObject(400, "unable to parse request")}

\* What dispatch answers to a dabException of the handler: an array.
C4_ErrorArray ==
    /\ AdapterCalled
    /\ Len(invoked) = 1
    /\ invoked[1].out = Throw(dabException(500, "oops"))
    /\ rsp = Value(ErrorArray(500, "oops"))

\* C5: on an adapter whose class declares none of the overridable methods, a
\* request for an overridable operation with its fixed parameters supplied
\* is answered with status 501 and error "unsupported", and leaves the
\* adapter as it was, its telemetry scheduler included.
C5_Unsupported501 ==
    [][(/\ pc = "idle"
        /\ AdapterCalled'
        /\ TopicFound'
        /\ Overrides[Self'.T] = {}
        /\ Descriptor'.callFunc \in Stubs
        /\ AllFixedSupplied')
       => /\ rsp'.kind = "value"
          /\ has(rsp'.value, "status")
          /\ rsp'.value.v["status"] = Int64(501)
          /\ has(rsp'.value, "error")
          /\ rsp'.value.v["error"] = Str("unsupported")
          /\ instances' = instances]_vars

\* What dispatch answers for a stub: the array of the catch clause.
C5_UnsupportedArray ==
    /\ AdapterCalled
    /\ Overrides[Self.T] = {}
    /\ req = Object("topic" :> Str("dab/D1/applications/list"))
    /\ Len(invoked) = 1
    /\ invoked[1].callFunc = "appList"
    /\ rsp = Value(ErrorArray(501, "unsupported"))

\* The request is for operations/list of the adapter it is given to.
OperationsListCalled ==
    /\ AdapterCalled
    /\ has(req, "topic")
    /\ req.v["topic"] = Str("dab/" \o Self.deviceId \o "/operations/list")

\* The operations a class reports: those whose method it declares itself,
\* and operations/list and version.
Reported(T) ==
    {k \in 1..Len(METHODS) :
        \/ METHODS[k].detectFunc \in Overrides[T]
        \/ METHODS[k].methName \in {"/operations/list", "/version"}}

\* The name of an operation without the leading dab/<deviceId>/.
Stripped(methName) == SubSeq(methName, 2, Len(methName))

\* C6: the implemented flag of an operation is true iff the adapter's class
\* declares the operation's method or the operation is operations/list or
\* version; operations/list answers { "operations": L } where L holds, once
\* each, the flagged topics without their dab/<deviceId>/, in the
\* lexicographic order of the topics; dab/discovery is not in L.
C6_OperationsListed ==
    /\ \A id \in DOMAIN instances : \A k \in 1..Len(METHODS) :
          Flag(instances[id], "dab/" \o id \o METHODS[k].methName)
          <=> k \in Reported(instances[id].T)
    /\ OperationsListCalled =>
          /\ rsp.kind = "value"
          /\ has(rsp.value, "operations")
          /\ rsp.value.v["operations"].t = "array"
          /\ LET L == rsp.value.v["operations"].v
                 topic(i) == "dab/" \o Self.deviceId \o "/" \o L[i].v
             IN  /\ {L[i] : i \in 1..Len(L)}
                      = {Str(Stripped(METHODS[k].methName)) : k \in Reported(Self.T)}
                 /\ Len(L) = Cardinality(Reported(Self.T))
                 /\ \A i \in 1..Len(L) : \A j \in (i + 1)..Len(L) :
                       StrLess(topic(i), topic(j))
                 /\ \A i \in 1..Len(L) :
                       L[i].v \notin {"discovery", "dab/discovery"}

\* The list of an adapter that declares ten of the operations' methods.
C6_PlayerListed ==
    /\ OperationsListCalled
    /\ Self.T = "Player"
    /\ rsp = Value(Object(
          ("operations" :> Array(<<
               Str("applications/exit"), Str("applications/get-state"),
               Str("applications/launch"), Str("applications/list"),
               Str("device-telemetry/start"), Str("device-telemetry/stop"),
               Str("input/long-key-press"), Str("operations/list"),
               Str("system/settings/set"), Str("version")>>))
          @@ ("status" :> Int64(200))))

\* The telemetry operations, each with the method whose declaration by the
\* adapter's class sets its flag.
TelemetryOperations ==
    [start |-> [methName |-> "/device-telemetry/start", detectFunc |-> "deviceTelemetry"],
     stop |-> [methName |-> "/device-telemetry/stop", detectFunc |-> "deviceTelemetry"],
     appStart |-> [methName |-> "/app-telemetry/start", detectFunc |-> "appTelemetry"],
     appStop |-> [methName |-> "/app-telemetry/stop", detectFunc |-> "appTelemetry"]]

InTopics(topics, topic) == \E k \in 1..Len(topics) : topics[k] = topic

InOperationsList(methName) ==
    /\ rsp.kind = "value"
    /\ has(rsp.value, "operations")
    /\ \E i \in 1..Len(rsp.value.v["operations"].v) :
          rsp.value.v["operations"].v[i] = Str(Stripped(methName))

\* C7 as it is stated: for every adapter the four telemetry operations have
\* a true implemented flag, are in getTopics() and are in the answer of
\* operations/list.
C7_TelemetryAlwaysImplemented ==
    \A id \in DOMAIN instances : \A topics \in {getTopics(instances[id])} :
    \A o \in DOMAIN TelemetryOperations :
        LET methName == TelemetryOperations[o].methName
        IN  /\ Flag(instances[id], "dab/" \o id \o methName)
            /\ InTopics(topics, "dab/" \o id \o methName)
            /\ (OperationsListCalled /\ Self.deviceId = id) => InOperationsList(methName)

\* C7: a telemetry operation has a true implemented flag, is in getTopics()
\* and is in the answer of operations/list exactly when the adapter's class
\* declares the telemetry method of its kind (deviceTelemetry for
\* device-telemetry/start and stop, appTelemetry for app-telemetry/start and
\* stop); operations/list and version are flagged and in getTopics() for
\* every adapter.
C7_TelemetryImplementedIfDeclared ==
    \A id \in DOMAIN instances : \A topics \in {getTopics(instances[id])} :
        /\ \A o \in DOMAIN TelemetryOperations :
              LET methName == TelemetryOperations[o].methName
                  declared == TelemetryOperations[o].detectFunc \in Overrides[instances[id].T]
              IN  /\ Flag(instances[id], "dab/" \o id \o methName)
                     <=> declared
                  /\ InTopics(topics, "dab/" \o id \o methName) <=> declared
                  /\ (OperationsListCalled /\ Self.deviceId = id)
                     => (InOperationsList(methName) <=> declared)
        /\ \A methName \in {"/operations/list", "/version"} :
              /\ Flag(instances[id], "dab/" \o id \o methName)
              /\ InTopics(topics, "dab/" \o id \o methName)

\* An adapter that declares no method lists operations/list and version
\* only, and its topics are these two.
C7_PlainListsNoTelemetry ==
    /\ OperationsListCalled
    /\ Overrides[Self.T] = {}
    /\ rsp = Value(Object(
          ("operations" :> Array(<<Str("operations/list"), Str("version")>>))
          @@ ("status" :> Int64(200))))
    /\ getTopics(Self) = <<"dab/D1/operations/list", "dab/D1/version">>

\* The registered deviceIds a request's topic is for: the topic is
\* dab/<id>/<rest>.
Routed(json, adapters) ==
    {id \in DOMAIN adapters :
        /\ has(json, "topic")
        /\ json.v["topic"].t = "string"
        /\ Len(json.v["topic"].v) >= Len("dab/" \o id \o "/")
        /\ SubSeq(json.v["topic"].v, 1, Len("dab/" \o id \o "/")) = "dab/" \o id \o "/"}

\* C8: bridge dispatch of a topic dab/<id>/<rest> with <id> registered calls
\* dispatch once on the adapter registered under <id> and on no other,
\* returns what that adapter's dispatch returns, publishes nothing, and
\* leaves the registry with the same keys and the same adapter objects (the
\* other adapters untouched).
C8_RoutedToRegistered ==
    [][(pc = "idle" /\ BridgeCalled') =>
          \A id \in Routed(req', instances) :
              /\ dispatched' = <<id>>
              /\ \E user \in UserOutcomes :
                 \E r \in {dispatch(instances[id], req', user, now)} :
                    /\ rsp' = Value(r.rsp)
                    /\ invoked' = r.invoked
              /\ published' = <<>>
              /\ DOMAIN instances' = DOMAIN instances
              /\ \A o \in DOMAIN instances \ {id} : instances'[o] = instances[o]
              /\ instances'[id].T = instances[id].T
              /\ instances'[id].deviceId = instances[id].deviceId
              /\ instances'[id].ipAddress = instances[id].ipAddress
              /\ instances'[id].publishCallback = instances[id].publishCallback]_vars

\* With two devices registered, a request for the second is answered by it.
C8_SecondDeviceAnswers ==
    /\ BridgeCalled
    /\ DOMAIN instances = {"D1", "D2"}
    /\ req = Object("topic" :> Str("dab/D2/version"))
    /\ dispatched = <<"D2">>
    /\ Len(invoked) = 1
    /\ invoked[1].deviceId = "D2"
    /\ rsp = Value(Object(("versions" :> Array(<<Str("2.0")>>))
                          @@ ("status" :> Int64(200))))

\* The parts of a topic that is a string.
TopicString == has(req, "topic") /\ req.v["topic"].t = "string"
HasPrefix(t) == Len(t) >= 4 /\ SubSeq(t, 1, 4) = "dab/"
Slashes(t) == {i \in 5..Len(t) : SubSeq(t, i, i) = "/"}
DeviceIdOf(t) ==
    SubSeq(t, 5, (CHOOSE i \in Slashes(t) : \A j \in Slashes(t) : i <= j) - 1)

\* Bridge dispatch raises the error and no adapter is entered.
Fails(errorCode, errorText) ==
    /\ rsp = Throw(dabException(errorCode, errorText))
    /\ dispatched = <<>>
    /\ invoked = <<>>
    /\ published = <<>>

C10_AlwaysAResponseObject ==
    BridgeCalled =>
        /\ rsp.kind = "value"
        /\ rsp.value.t = "object"
        /\ has(rsp.value, "status")
        /\ req = Object("topic" :> Str("dab/XYZ/version"))
           => rsp = Value(ErrorObject(400, "deviceId does not exist"))

\* What bridge dispatch does for an unknown device: it throws.
C10_UnknownDeviceThrows ==
    /\ BridgeCalled
    /\ "D1" \in DOMAIN instances
    /\ req = Object("topic" :> Str("dab/XYZ/version"))
    /\ rsp = Throw(dabException(400, "deviceId does not exist"))

(***************************************************************************)
(* The discovery fan-out and the registry.                                 *)
(***************************************************************************)

DiscoveryCalled ==
    /\ BridgeCalled
    /\ TopicString
    /\ req.v["topic"].v = "dab/discovery"

\* The number of registered deviceIds that come before id.
Rank(id) == Cardinality({o \in DOMAIN instances : StrLess(o, id)})

\* j is a response of the adapter registered under id to dab/discovery.
DiscoveryOf(j, id) ==
    /\ j.t = "object"
    /\ {"ip", "deviceId"} \subseteq DOMAIN j.v
    /\ j.v["ip"] = Str(instances[id].ipAddress)
    /\ j.v["deviceId"] = Str(id)

TopicAndPayload(j) ==
    /\ j.t = "object"
    /\ DOMAIN j.v = {"topic", "payload"}
    /\ j.v["topic"].t = "string"

\* C12: every message given to the publish callback installed through
\* setPublishCallback, by the telemetry worker of an adapter or by the
\* discovery fan-out of the bridge, is an object { "topic": <string>,
\* "payload": <value> }.
C12_PublishedTopicAndPayload ==
    \A k \in 1..Len(published) : TopicAndPayload(published[k])

\* What the fan-out gives the callback: the response of the adapter as it
\* is, with no topic and no payload.
C12_FanOutPublishesResponse ==
    /\ DiscoveryCalled
    /\ publishCallback # empty
    /\ Len(published) = 1
    /\ DOMAIN published[1].v = {"ip", "deviceId", "status"}
    /\ ~TopicAndPayload(published[1])

MakeDeviceInstanceCalled == pc = "done" /\ op = "dabBridge::makeDeviceInstance"

\* The first type of the catalogue, in declaration order, that accepts the
\* first extra argument; args are the arguments of makeDeviceInstance.
Accepting(args) == {k \in 1..Len(Catalogue) : Catalogue[k] \in args.isCompatible}
FirstCompatible(args) ==
    Catalogue[CHOOSE k \in Accepting(args) : \A o \in Accepting(args) : k <= o]

\* C13: makeDeviceInstance ( deviceId, extras... ) instantiates the first
\* type of the catalogue whose isCompatible accepts the first extra and
\* stores that adapter under deviceId, leaving the other entries of the
\* registry alone; when no type accepts, it fails with 400 "no compatible
\* devices found" and the registry is unchanged.
C13_FirstCompatibleStored ==
    [][(pc = "idle" /\ MakeDeviceInstanceCalled') =>
          IF Accepting(req') = {}
          THEN /\ rsp' = Throw(dabException(400, "no compatible devices found"))
               /\ instances' = instances
          ELSE /\ rsp'.kind = "value"
               /\ DOMAIN instances' = DOMAIN instances \cup {req'.deviceId}
               /\ instances'[req'.deviceId] =
                     dabClient(FirstCompatible(req'), req'.deviceId, req'.ipAddress)
               /\ \A o \in DOMAIN instances \ {req'.deviceId} : instances'[o] = instances[o]]_vars

\* A deviceId that is registered already keeps its adapter: the registry
\* holds an adapter of another type than the one just instantiated.
C13_RegisteredKeepsAdapter ==
    /\ MakeDeviceInstanceCalled
    /\ rsp.kind = "value"
    /\ Accepting(req) # {}
    /\ instances[req.deviceId].T # FirstCompatible(req)

(***************************************************************************)
(* The telemetry scheduler, its worker, and the teardown of the adapter.   *)
(***************************************************************************)

\* The scheduler of the adapter, and its keys that hold an entry of id.
Scheduler == instances["D1"].telemetryScheduler
EntriesOf(scheduler, id) == {k \in DOMAIN scheduler : scheduler[k].id = id}

\* The ids telemetry is asked for.
SubjectIds == {""} \cup AppIds

\* C14: in every state of an adapter, whatever the order of addTelemetry,
\* deleteTelemetry and the steps of the worker, the scheduler holds at most
\* one entry of each subjectId.
C14_OneEntryPerSubject ==
    \A id \in SubjectIds : Cardinality(EntriesOf(Scheduler, id)) <= 1

\* Both subjects are scheduled, the device's entry after a second start for
\* it and a reschedule by the worker.
C14_TwoSubjectsScheduled ==
    /\ op = "dabClient::deviceTelemetryStartInternal"
    /\ Cardinality(DOMAIN Scheduler) = 2
    /\ \A id \in SubjectIds : Cardinality(EntriesOf(Scheduler, id)) = 1
    /\ \E k \in EntriesOf(Scheduler, "") : k > now

\* The call of the step was a telemetry start, a telemetry stop.
StartCalled ==
    op \in {"dabClient::deviceTelemetryStartInternal", "dabClient::appTelemetryStartInternal"}
StopCalled ==
    op \in {"dabClient::deviceTelemetryStopInternal", "dabClient::appTelemetryStopInternal"}

\* The id the call was for, and the interval it gave.
CalledFor == IF op \in {"dabClient::appTelemetryStartInternal",
                        "dabClient::appTelemetryStopInternal"}
             THEN req.v[1].v ELSE ""
CalledWith == req.v[Len(req.v)].v

\* C15: addTelemetry for a subject X that has an entry updates the entry in
\* place: afterwards the scheduler holds one entry for X, with the new
\* interval and with the time of its next call, its topic and its producer
\* as before, and the entries of the other subjects are as before.
C15_UpdatedInPlace ==
    [][(StartCalled' /\ EntriesOf(Scheduler, CalledFor') # {}) =>
          /\ DOMAIN Scheduler' = DOMAIN Scheduler
          /\ \A k \in DOMAIN Scheduler :
                IF Scheduler[k].id = CalledFor'
                THEN /\ Scheduler'[k].id = CalledFor'
                     /\ Scheduler'[k].interval = CalledWith'
                     /\ Scheduler'[k].topic = Scheduler[k].topic
                     /\ Scheduler'[k].callback = Scheduler[k].callback
                ELSE Scheduler'[k] = Scheduler[k]
          /\ Cardinality(EntriesOf(Scheduler', CalledFor')) = 1]_vars

\* A second start for the device, with another interval, while the
\* application is scheduled too: the device's entry keeps the time it had,
\* which is not the time of the call.
C15_IntervalChanged ==
    /\ op = "dabClient::deviceTelemetryStartInternal"
    /\ req = Array(<<Int64(2)>>)
    /\ now = 2
    /\ DOMAIN Scheduler = {0, 1}
    /\ Scheduler[0].id = ""
    /\ Scheduler[0].interval = 2
    /\ Scheduler[1].id = "p"

\* C16: deleteTelemetry ( X ) removes the entry of X when there is one and
\* leaves the entries of the other subjects as they are; with no entry of X
\* it leaves the scheduler as it is, so that a second deleteTelemetry ( X )
\* changes nothing.
C16_DeleteRemovesOnlySubject ==
    [][StopCalled' =>
          /\ Scheduler' = [k \in DOMAIN Scheduler \ EntriesOf(Scheduler, CalledFor') |->
                              Scheduler[k]]
          /\ EntriesOf(Scheduler, CalledFor') = {} => Scheduler' = Scheduler
          /\ deleteTelemetry(Scheduler', CalledFor') = Scheduler']_vars

\* The application's telemetry is stopped while the device's goes on: the
\* waiting worker was notified of the erased entry.
C16_AppStoppedDeviceKept ==
    /\ op = "dabClient::appTelemetryStopInternal"
    /\ worker.pc = "notified"
    /\ stopped = {"p"}
    /\ Cardinality(DOMAIN Scheduler) = 1
    /\ EntriesOf(Scheduler, "") # {}

\* The worker has fired an entry: the step ended a tick.
Fired == op = "dabClient::telemetryTask"

\* The step called the producer of the first entry.
Producing == op = "telemetryExecutor::getTelemetry"

\* The step called publish.
Publishing == op = "dabInterface::publish"

\* The step is one of a tick.
Ticking == Producing \/ Publishing \/ Fired

\* The topic the telemetry of a subject is published on.
TopicOf(id) ==
    IF id = "" THEN "dab/D1/device-telemetry/metrics"
    ELSE "dab/D1/app-telemetry/metrics/" \o id

\* C17: once deleteTelemetry ( X ) has returned (device-telemetry/stop,
\* app-telemetry/stop), the worker calls no producer and publishes no message
\* for X until X is started again, however the worker's steps fall between
\* the calls.
C17_NothingAfterStop ==
    Ticking =>
        /\ \A k \in 1..Len(invoked) : invoked[k].id \notin stopped
        /\ \A k \in 1..Len(published) :
              \A id \in stopped : published[k].v["topic"] # Str(TopicOf(id))

\* The device's telemetry is published while the application's, which was
\* started, is stopped.
C17_DeviceFiresAppStopped ==
    /\ Fired
    /\ stopped = {"p"}
    /\ Len(invoked) = 1
    /\ invoked[1].id = ""
    /\ published = <<Object(("topic" :> Str("dab/D1/device-telemetry/metrics"))
                            @@ ("payload" :> Object("cpu" :> Int64(7))))>>

\* C18: destroying an adapter terminates: however the steps of the
\* destructor (exiting = true, notify_all, join) and of the worker fall, the
\* scheduler empty or not, the worker leaves its loop and join returns.
C18_DestructionTerminates == (destructor = "~T") ~> (destructor = "joined")

\* The notification came before the worker waited: the worker waits with no
\* time in telemetryCondition.wait, the destructor waits in join.
C18_WorkerWaitsDestructorJoins ==
    /\ destructor = "join"
    /\ exiting
    /\ worker.pc = "waiting"
    /\ ~worker.timed
    /\ DOMAIN Scheduler = {}

\* C19: once the destructor has set exiting, the worker calls no producer
\* and publishes nothing: a worker that wakes from its wait returns without
\* firing, the first entry due or not.
C19_NoTickOnceExiting == (Producing \/ Publishing) => ~exiting

\* The worker, woken by the destructor's notification, fires the entry that
\* is due and only then looks at exiting.
C19_FiresWhileExiting ==
    /\ Publishing
    /\ exiting
    /\ destructor = "join"
    /\ Len(invoked) = 1
    /\ Len(published) = 1
    /\ worker.pc = "extract"

\* C20: the worker calls no producer, a method of the concrete adapter, once
\* the teardown of the adapter has begun: the worker is joined before any
\* part of the adapter is destroyed.
C20_NoProducerDuringTeardown == Producing => destructor = "alive"

\* The concrete adapter's destructor has run, ~dabClient has not yet set
\* exiting, and the worker calls deviceTelemetry of the concrete adapter.
C20_ProducerCalledAfterConcreteDestroyed ==
    /\ Producing
    /\ destructor = "~T"
    /\ ~exiting
    /\ Len(invoked) = 1
    /\ invoked[1].callFunc = "deviceTelemetry"

(***************************************************************************)
(* Telemetry starts and the worker's ticks.                                *)
(***************************************************************************)

\* C21: whatever telemetry starts and stops came before, a successful
\* device-telemetry/start with duration d leaves an entry of subjectId ""
\* with the topic dab/<deviceId>/device-telemetry/metrics and the interval
\* d, and answers { "duration": d }; a successful app-telemetry/start
\* ( appId, d ) leaves an entry of subjectId appId with the topic
\* dab/<deviceId>/app-telemetry/metrics/<appId>; every entry has the topic
\* of its kind and subject.
C21_StartLeavesEntry ==
    /\ StartCalled =>
          /\ rsp = Value(Object("duration" :> Int64(CalledWith)))
          /\ \E k \in DOMAIN Scheduler :
                /\ Scheduler[k].id = CalledFor
                /\ Scheduler[k].topic = TopicOf(CalledFor)
                /\ Scheduler[k].interval = CalledWith
    /\ \A k \in DOMAIN Scheduler : Scheduler[k].topic = TopicOf(Scheduler[k].id)

\* The application's telemetry is started at the clock reading the device's
\* entry is scheduled for: the start answers, and no entry is there for the
\* application.
C21_StartedWithoutEntry ==
    /\ op = "dabClient::appTelemetryStartInternal"
    /\ rsp = Value(Object("duration" :> Int64(1)))
    /\ EntriesOf(Scheduler, "p") = {}
    /\ EntriesOf(Scheduler, "") = {now}

\* The worker's step called the producer of the entry of id and published.
FiredFor(id) == Fired /\ invoked[1].id = id

\* A start for the subject has returned and the scheduler holds no entry of
\* the subject for a time other than that of the call: the subject had no
\* entry, or one for this clock reading.
StartedAnew(id) ==
    /\ StartCalled
    /\ CalledFor = id
    /\ EntriesOf(Scheduler, id) \subseteq {now}
    /\ now < MaxTime

\* C22: addTelemetry for a subject that has no entry inserts one for the
\* time of the call, and the worker publishes the subject's first sample
\* without waiting one interval: with the threads scheduled and the clock
\* advancing, the first publish happens, the worker blocked on an empty
\* scheduler or waiting for a later first entry or not, unless the subject
\* is stopped or the adapter destroyed first.
C22_FirstSamplePublished ==
    \A id \in SubjectIds :
        StartedAnew(id) ~> (FiredFor(id) \/ id \in stopped \/ destructor # "alive")

\* The device's telemetry is started at the clock reading the application's
\* entry is scheduled for: no entry is there for the device, whose first
\* sample nothing will publish.
C22_NothingToPublish ==
    /\ op = "dabClient::deviceTelemetryStartInternal"
    /\ EntriesOf(Scheduler, "") = {}
    /\ EntriesOf(Scheduler, "p") = {now}
    /\ "" \notin stopped
    /\ destructor = "alive"
    /\ now < MaxTime

\* C29: each tick of the worker calls the producer of the first entry once,
\* publishes one message { "topic": the entry's topic, "payload": what the
\* producer returned }, and inserts the same entry (subject, topic,
\* producer, interval) again for the time now + the entry's interval.
C29_TickPublishesAndReinserts ==
    [][Fired' =>
          /\ Len(invoked') = 1
          /\ invoked'[1].id = Scheduler[begin(Scheduler)].id
          /\ invoked'[1].callFunc = Scheduler[begin(Scheduler)].callback.func
          /\ published' = <<Object(("topic" :> Str(Scheduler[begin(Scheduler)].topic))
                                   @@ ("payload" :> invoked'[1].out.value))>>
          /\ now + Scheduler[begin(Scheduler)].interval \in DOMAIN Scheduler'
          /\ Scheduler'[now + Scheduler[begin(Scheduler)].interval]
                = Scheduler[begin(Scheduler)]]_vars

\* The device's entry has fired at a clock reading from which its interval
\* leads to the key of the application's entry: the device's sample is
\* published and no entry is left for the device.
C29_FiredEntryLost ==
    /\ Fired
    /\ invoked[1].id = ""
    /\ Len(published) = 1
    /\ EntriesOf(Scheduler, "") = {}
    /\ EntriesOf(Scheduler, "p") # {}
    /\ "" \notin stopped

\* C30: the worker fires the entry of the smallest time only, and no entry
\* before its time; when two entries have the same time, by a start or by a
\* reschedule, both stay in the scheduler: neither the start of a subject
\* with no entry nor a tick of the worker takes a subject out of the
\* scheduler.
C30_OrderedAndTiesKept ==
    [][/\ Fired' =>
             /\ invoked'[1].id = Scheduler[begin(Scheduler)].id
             /\ begin(Scheduler) <= now
             /\ \A id \in SubjectIds :
                   EntriesOf(Scheduler, id) # {} => EntriesOf(Scheduler', id) # {}
       /\ StartCalled' =>
             \A id \in SubjectIds \cup {CalledFor'} :
                   (id = CalledFor' \/ EntriesOf(Scheduler, id) # {})
                      => EntriesOf(Scheduler', id) # {}]_vars

\* The application's entry has fired and its next time is the one the
\* device's entry has: the device's entry stays, the application's is gone.
C30_TieOnReschedule ==
    /\ Fired
    /\ invoked[1].id = "p"
    /\ EntriesOf(Scheduler, "p") = {}
    /\ \E k \in EntriesOf(Scheduler, "") : k = now + 1 \/ k = now + 2
    /\ "p" \notin stopped

(***************************************************************************)
(* The binding of the arguments.                                           *)
(***************************************************************************)

\* The name is given twice, in payload and at top level, with two values.
GivenTwice(name) ==
    /\ InPayloadObject(name)
    /\ has(req, name)
    /\ req.v["payload"].v[name] # req.v[name]

\* C25: when the name of a fixed or optional parameter is both in payload
\* and at the top level of the envelope, the handler receives the value of
\* payload; it receives the value of the top level only when payload has no
\* such member or a null one.
C25_PayloadPreferred ==
    (AdapterCalled /\ TopicFound) =>
        \A k \in 1..Len(Names) :
            /\ (GivenTwice(Names[k]) /\ AllFixedSupplied)
               => /\ Len(invoked) = 1
                  /\ invoked[1].vs[k] = req.v["payload"].v[Names[k]]
            /\ (/\ Len(invoked) = 1
                /\ has(req, Names[k])
                /\ invoked[1].vs[k] = req.v[Names[k]])
               => \/ ~InPayloadObject(Names[k])
                  \/ req.v["payload"].v[Names[k]] = req.v[Names[k]]

\* appId is "p" in payload and "t" at top level: appGetState is called with
\* "p".
C25_BothGivenPayloadWins ==
    /\ AdapterCalled
    /\ req = Object(("topic" :> Str("dab/D1/applications/get-state"))
                    @@ ("payload" :> Object("appId" :> Str("p")))
                    @@ ("appId" :> Str("t")))
    /\ Len(invoked) = 1
    /\ invoked[1].vs = <<Str("p")>>

\* C26: for the operation whose fixed parameter is "*" (system/settings/set)
\* the handler is called, for every envelope, with the whole envelope as its
\* argument: with a payload member or without, and whether or not payload
\* or the envelope has a member of the name "*".
C26_StarBindsEnvelope ==
    (AdapterCalled /\ TopicFound /\ Descriptor.fixedParams = <<"*">>) =>
        /\ Len(invoked) = 1
        /\ invoked[1].vs = <<req>>

\* payload has a member "*": systemSettingsSet is called with that member,
\* not with the envelope.
C26_StarMemberBound ==
    /\ AdapterCalled
    /\ req = Object(("topic" :> Str("dab/D1/system/settings/set"))
                    @@ ("payload" :> Object("*" :> Object("k" :> Int64(1)))))
    /\ Len(invoked) = 1
    /\ invoked[1].callFunc = "systemSettingsSet"
    /\ invoked[1].vs = <<Object("k" :> Int64(1))>>

\* The name is no member of payload and none of the envelope.
Absent(name) ==
    /\ name \notin DOMAIN req.v
    /\ ("payload" \in DOMAIN req.v /\ req.v["payload"].t = "object")
       => name \notin DOMAIN req.v["payload"].v

\* C27: when an optional parameter is absent from payload and from the top
\* level of the envelope, the fixed parameters being supplied, the handler
\* is called all the same, with the default value of the parameter's type
\* (empty string, 0, false, null) in its place: the absence of an optional
\* parameter makes no error response.
C27_AbsentOptionalDefaulted ==
    (AdapterCalled /\ TopicFound /\ AllFixedSupplied) =>
        \A k \in (Len(Descriptor.fixedParams) + 1)..Len(Names) :
            Absent(Names[k])
            => /\ Len(invoked) = 1
               /\ invoked[1].vs[k] = DefaultValue(Types[k])

\* appId is at top level, background nowhere, and the envelope has no
\* payload member: appExit is not called.
C27_NoPayloadNoDefault ==
    /\ AdapterCalled
    /\ req = Object(("topic" :> Str("dab/D1/applications/exit"))
                    @@ ("appId" :> Str("t")))
    /\ invoked = <<>>
    /\ rsp = Value(ErrorArray(400, "unable to parse request"))

\* The value the request supplies for the k-th parameter is not of the
\* parameter's type.
Mismatch(k) ==
    /\ Supplied(Names[k])
    /\ Convert(SuppliedValue(Names[k]), Types[k]).kind = "throw"

\* C28: when a value bound to a parameter is not of the parameter's declared
\* type (a string where an integer is declared, an integer where a boolean
\* or a string is declared), dispatch answers with a response of status 400
\* and the handler is not called.
C28_MismatchIs400 ==
    (AdapterCalled /\ TopicFound /\ \E k \in 1..Len(Names) : Mismatch(k)) =>
        /\ invoked = <<>>
        /\ rsp.kind = "value"
        /\ has(rsp.value, "status")
        /\ rsp.value.v["status"] = Int64(400)

\* keyCode is an integer: inputKeyPress is not called, and the answer is the
\* array of the catch-all clause, which has no member status.
C28_MismatchAnsweredWithArray ==
    /\ AdapterCalled
    /\ req = Object(("topic" :> Str("dab/D1/input/key-press"))
                    @@ ("payload" :> Object("keyCode" :> Int64(5))))
    /\ invoked = <<>>
    /\ rsp = Value(ErrorArray(400, "unable to parse request"))

(***************************************************************************)
(* The JSON text of a jsonElement: jsonElement::serialize, the parsing     *)
(* constructor jsonElement ( char const ** ) and jsonParser.               *)
(***************************************************************************)

\* The end of a C string.
NUL == ""

\* (*str)[0] for the pointer at index p of the string s.
Peek(s, p) == IF p < Len(s) THEN CharAt(s, p) ELSE NUL

Digits    == "0123456789"
HexDigits == "0123456789ABCDEF"

\* std::to_string ( int64_t )
RECURSIVE Decimal(_)
Decimal(n) ==
    IF n < 10 THEN CharAt(Digits, n)
    ELSE Decimal(n \div 10) \o CharAt(Digits, n % 10)

to_string(v) == IF v < 0 THEN "-" \o Decimal(-v) ELSE Decimal(v)

\* A double is kept as the number of its millionths.  std::to_string (
\* double ) prints as "%f" does: the integer part, a point, six digits.
Million == 1000000

Fraction(n) ==
    CharAt(Digits, (n \div 100000) % 10) \o CharAt(Digits, (n \div 10000) % 10)
    \o CharAt(Digits, (n \div 1000) % 10) \o CharAt(Digits, (n \div 100) % 10)
    \o CharAt(Digits, (n \div 10) % 10) \o CharAt(Digits, n % 10)

Fixed(n) == Decimal(n \div Million) \o "." \o Fraction(n % Million)

to_string_double(v) == IF v < 0 THEN "-" \o Fixed(-v) ELSE Fixed(v)

Double(v) == [t |-> "double", v |-> v]

\* The switch of serialize over one character of a string.
Escape(it) ==
    CASE it = "\"" -> "\\\""
      [] it = "\\" -> "\\\\"
      [] it = "\r" -> "\\r"
      [] it = "\n" -> "\\n"
      [] it = "\t" -> "\\t"
      [] OTHER ->
            IF ord(it) < 32 \/ ord(it) > 127
            THEN "%" \o CharAt(HexDigits, ord(it) \div 16) \o CharAt(HexDigits, ord(it) % 16)
            ELSE it

RECURSIVE Escaped(_)
Escaped(v) == IF v = "" THEN "" ELSE Escape(Head(v)) \o Escaped(Tail(v))

\* A faulty order of the members, by the length of the name first (C24
\* tells it apart).
InLengthOrder(keys) ==
    LET before == {<<Cardinality({o \in keys : IF Len(o) = Len(k) THEN StrLess(o, k)
                                                ELSE Len(o) < Len(k)}), k>> :
                      k \in keys}
    IN  [i \in 1..Cardinality(keys) |-> (CHOOSE p \in before : p[1] = i - 1)[2]]

\* for ( auto &&[name, v] : obj ): the names in the order of the std::map.
Visited(keys) ==
    InOrder(keys)

\* name, quoted or not, and the colon
Named(name, quoteNames) ==
    IF quoteNames THEN "\"" \o name \o "\":" ELSE name \o ":"

Separator(first) == IF first THEN "" ELSE ","

\* jsonElement::serialize: what it appends to buff.
RECURSIVE serialize(_, _)
RECURSIVE Members(_, _, _, _)
RECURSIVE Items(_, _, _)

Members(obj, names, first, quoteNames) ==
    IF names = <<>> THEN ""
    ELSE Separator(first) \o Named(Head(names), quoteNames)
         \o serialize(obj[Head(names)], quoteNames)
         \o Members(obj, Tail(names), FALSE, quoteNames)

Items(arr, first, quoteNames) ==
    IF arr = <<>> THEN ""
    ELSE Separator(first) \o serialize(Head(arr), quoteNames)
         \o Items(Tail(arr), FALSE, quoteNames)

serialize(j, quoteNames) ==
    CASE j.t = "object" -> "{" \o Members(j.v, Visited(DOMAIN j.v), TRUE, quoteNames) \o "}"
      [] j.t = "array"  -> "[" \o Items(j.v, TRUE, quoteNames) \o "]"
      [] j.t = "int"    -> to_string(j.v)
      [] j.t = "double" -> to_string_double(j.v)
      [] j.t = "string" -> "\"" \o Escaped(j.v) \o "\""
      [] j.t = "bool"   -> IF j.v THEN "true" ELSE "false"
      [] j.t = "null"   -> "null"
      [] OTHER          -> ""

\* The character classes of the parser.
isSpace(c)   == c \in {" ", "\t", "\r", "\n"}
isDigit(c)   == c # NUL /\ c \in Characters /\ Code(c) >= 48 /\ Code(c) <= 57
isSymbolB(c) ==
    /\ c # NUL
    /\ c \in Characters
    /\ \/ Code(c) >= 97 /\ Code(c) <= 122
       \/ Code(c) >= 65 /\ Code(c) <= 90
       \/ c = "_"
isNum(c)     == isDigit(c) \/ c = "+" \/ c = "-"
isNumB(c)    == isNum(c) \/ c = "e"
isSymbol(c)  == isSymbolB(c) \/ isDigit(c)

\* The characters of a class.
Spaces   == {c \in Characters \cup {"\t", "\r", "\n"} : isSpace(c)}
Numerals == {c \in Characters : isDigit(c)}
NumChars == {c \in Characters : isNum(c)}
SymbolBs == {c \in Characters : isSymbolB(c)}

\* while ( is ( **str ) ) (*str)++ for the characters of a class: the index
\* the pointer stops at.
Skip(s, p, class) ==
    CHOOSE q \in p..Len(s) :
        /\ Peek(s, q) \notin class
        /\ \A o \in p..(q - 1) : Peek(s, o) \in class

SkipSpace(s, p) == Skip(s, p, Spaces)

\* What the standard library's conversions throw.
InvalidArgument(what) == [what |-> "std::invalid_argument", text |-> what]

\* The value of a string of digits.
RECURSIVE Natural(_)
Natural(v) ==
    IF v = "" THEN 0
    ELSE 10 * Natural(SubSeq(v, 1, Len(v) - 1)) + (Code(CharAt(v, Len(v) - 1)) - 48)

\* The sign and the digits std::stoll and std::stod convert: an optional
\* sign, then digits as far as they go.
Signed(v)    == Len(v) > 0 /\ CharAt(v, 0) \in {"+", "-"}
DigitsOf(v)  ==
    SubSeq(v, (IF Signed(v) THEN 2 ELSE 1),
           Skip(v, (IF Signed(v) THEN 1 ELSE 0), Numerals))
Magnitude(v) == IF Signed(v) /\ CharAt(v, 0) = "-" THEN 0 - Natural(DigitsOf(v))
                ELSE Natural(DigitsOf(v))

stoll(v) ==
    IF DigitsOf(v) = "" THEN Throw(InvalidArgument("stoll"))
    ELSE Value(Int64(Magnitude(v)))

\* std::stod of a string of the characters of isNum, which holds no point
\* and no exponent.
stod(v) ==
    IF DigitsOf(v) = "" THEN Throw(InvalidArgument("stod"))
    ELSE Value(Double(Magnitude(v) * Million))

\* A number: the characters of isNum are collected; a point or an e among
\* them makes it a double.
Number(v) ==
    IF \E k \in 0..(Len(v) - 1) : CharAt(v, k) \in {".", "e"}
    THEN stod(v) ELSE stoll(v)

\* What the parsing constructor leaves: the element and the pointer.
Parsed(j, p) == [kind |-> "value", value |-> j, str |-> p]

\* The characters of a string up to the closing quote: the body of the
\* while loop, v the string so far.
RECURSIVE Unquoted(_, _, _)
Unquoted(s, p, v) ==
    IF Peek(s, p) = NUL THEN Throw(CString("missing \""))
    ELSE IF Peek(s, p) = "\"" THEN Parsed(Str(v), p + 1)
    ELSE IF Peek(s, p) = "\\" /\ Peek(s, p + 1) = "\"" THEN Unquoted(s, p + 2, v \o "\"")
    ELSE IF Peek(s, p) = "\\" /\ Peek(s, p + 1) = "r" THEN Unquoted(s, p + 2, v \o "\r")
    ELSE IF Peek(s, p) = "\\" /\ Peek(s, p + 1) = "n" THEN Unquoted(s, p + 2, v \o "\n")
    ELSE IF Peek(s, p) = "\\" /\ Peek(s, p + 1) = "t" THEN Unquoted(s, p + 2, v \o "\t")
    ELSE IF Peek(s, p) = "\\" /\ Peek(s, p + 1) # NUL
    THEN Unquoted(s, p + 2, v \o Peek(s, p + 1))
    ELSE Unquoted(s, p + 1, v \o Peek(s, p))

\* The name of a member, p at its first character: quoted, up to the next
\* quote whatever comes before it, or a symbol.
Name(s, p) ==
    IF Peek(s, p) = "\""
    THEN IF find(s, "\"", p + 1) = npos THEN Throw(CString("missing \""))
         ELSE Parsed(Str(SubSeq(s, p + 2, find(s, "\"", p + 1))), find(s, "\"", p + 1) + 1)
    ELSE IF ~isSymbol(Peek(s, p)) THEN Throw(CString("invalid json symbol value"))
    ELSE Parsed(Str(SubSeq(s, p + 1, Skip(s, p, SymbolBs))), Skip(s, p, SymbolBs))

\* jsonElement ( char const **str )
RECURSIVE Element(_, _)
RECURSIVE ObjectLoop(_, _, _, _)
RECURSIVE Member(_, _, _)
RECURSIVE Assigned(_, _, _, _)
RECURSIVE ArrayLoop(_, _, _, _)
RECURSIVE Pushed(_, _, _)

\* obj[name] = jsonElement ( str ), and the loop goes on
Assigned(s, obj, name, e) ==
    IF e.kind = "throw" THEN e
    ELSE ObjectLoop(s, e.str, (name :> e.value) @@ obj, FALSE)

\* the name, the separator and the value of a member, p at the name
Member(s, p, obj) ==
    LET name == Name(s, p)
    IN  IF name.kind = "throw" THEN name
        ELSE IF Peek(s, SkipSpace(s, name.str)) # ":"
        THEN Throw(CString("missing name/value separator"))
        ELSE Assigned(s, obj, name.value.v,
                      Element(s, SkipSpace(s, SkipSpace(s, name.str) + 1)))

\* one turn of for ( ;; ) in an object, p before the white space
ObjectLoop(s, p, obj, first) ==
    LET q == SkipSpace(s, p)
    IN  IF Peek(s, q) = "}" THEN Parsed(Object(obj), q + 1)
        ELSE IF first THEN Member(s, q, obj)
        ELSE IF Peek(s, q) # "," THEN Throw(CString("missing comma"))
        ELSE IF Peek(s, SkipSpace(s, q + 1)) = "}"
        THEN Parsed(Object(obj), SkipSpace(s, q + 1) + 1)
        ELSE Member(s, SkipSpace(s, q + 1), obj)

\* arr.push_back ( jsonElement ( str ) ), and the loop goes on
Pushed(s, arr, e) ==
    IF e.kind = "throw" THEN e
    ELSE ArrayLoop(s, e.str, Append(arr, e.value), FALSE)

\* one turn of for ( ;; ) in an array
ArrayLoop(s, p, arr, first) ==
    LET q == SkipSpace(s, p)
    IN  IF Peek(s, q) = "]" THEN Parsed(Array(arr), q + 1)
        ELSE IF first THEN Pushed(s, arr, Element(s, q))
        ELSE IF Peek(s, q) # "," THEN Throw(CString("missing comma"))
        ELSE Pushed(s, arr, Element(s, SkipSpace(s, q + 1)))

\* !memcmp ( *str, text, n ): the n characters at the pointer are those of
\* text (a string that ends before them differs at its end).
memcmp(s, p, text) ==
    /\ p + Len(text) <= Len(s)
    /\ SubSeq(s, p + 1, p + Len(text)) = text

\* The conversion of the characters of a number.
Numbered(number, p) ==
    IF number.kind = "throw" THEN number ELSE Parsed(number.value, p)

\* the branches of the constructor, q after the white space
Branch(s, q) ==
    CASE Peek(s, q) = "{"  -> ObjectLoop(s, q + 1, EmptyMap, TRUE)
      [] Peek(s, q) = "["  -> ArrayLoop(s, q + 1, <<>>, TRUE)
      [] Peek(s, q) = "\"" -> Unquoted(s, q + 1, "")
      [] isNumB(Peek(s, q)) ->
            Numbered(Number(SubSeq(s, q + 1, Skip(s, q, NumChars))), Skip(s, q, NumChars))
      [] OTHER ->
            IF memcmp(s, q, "true") THEN Parsed(Bool(TRUE), q + 4)
            ELSE IF memcmp(s, q, "false") THEN Parsed(Bool(FALSE), q + 5)
            ELSE IF memcmp(s, q, "null") THEN Parsed(Null, q + 4)
            ELSE Throw(CString("missing \""))

Element(s, p) == Branch(s, SkipSpace(s, p))

\* jsonParser: the element, and nothing but white space after it.
Whole(s, e) ==
    IF e.kind = "throw" THEN e
    ELSE IF Peek(s, SkipSpace(s, e.str)) # NUL THEN Throw(CString("invalid json"))
    ELSE Value(e.value)

jsonParser(str) == Whole(str, Element(str, 0))

(***************************************************************************)
(* A program that builds a jsonElement, serializes it and parses the text. *)
(***************************************************************************)

\* The number of elements of a jsonElement, itself included.
RECURSIVE Nodes(_)
RECURSIVE NodesOf(_)
NodesOf(elements) ==
    IF elements = <<>> THEN 0 ELSE Nodes(Head(elements)) + NodesOf(Tail(elements))
Nodes(j) ==
    CASE j.t = "object" -> 1 + NodesOf([k \in 1..Cardinality(DOMAIN j.v) |->
                                           j.v[InOrder(DOMAIN j.v)[k]]])
      [] j.t = "array"  -> 1 + NodesOf(j.v)
      [] OTHER          -> 1

\* The largest jsonElement the program builds.
MaxNodes == 3

\* The values a jsonElement is constructed from: null, booleans, integers,
\* doubles (1.5, -0.25, 2.0), strings.
Fundamental ==
    {Null, Bool(TRUE), Bool(FALSE), Int64(0), Int64(-7), Int64(1205),
     Double(1500000), Double(-250000), Double(2000000),
     Str(""), Str("a b"), Str("q\"\\"), Str("\\n"), Str("%41 {[,:"), Str("a\tb\r\n"),
     Str("\f")}

\* The values assigned to members, pushed to arrays and put into literals,
\* and the names of the members.
Assignable == {Null, Int64(-7), Double(1500000), Str("q\"\\")}
MemberNames == {"b", "B", "ab"}

\* The elements the program builds on: null, those of Assignable, and what
\* it has built.
Extendable(j) == j.t \in {"object", "array"} \/ j \in Assignable

\* Object texts with a name that is not quoted, and the names they are
\* written with: identifiers, and names that are none.
UnquotedKeys == {"a1", "_k2", "ab", "a_x", "_", "Zq", "1a", "7", "a-b", "a b", ""}
Keyed(name) == "{" \o name \o ":1}"

\* Number texts.
NumberTexts == {"12", "-3", "+3", "0", "1.5", "2e3", "-2.5e-3", "[1.5]", "[2e3, 12]"}

\* Texts given to jsonParser that serialize did not write.
Texts ==
    {Keyed(name) : name \in UnquotedKeys} \cup NumberTexts \cup
    {"{\"b\":1,\"a\":2,\"b\":3}",
     " { b : 1 , a_x : [ ] , } ",
     "[ 1 , -2,\t+3 ]",
     "{\"o\":{\"z\":null,\"y\":true}}",
     "\"a\\tb\\\\\\\"\\x\"",
     "1.5", "e5", "1-2", "tru", "[1 2]", "{\"a\" 1}", "\"open", "{\"a\":1,}x", "{1a:false}"}

\* The program has constructed document from a fundamental value.
InitJson ==
    /\ instances = EmptyMap
    /\ publishCallback = empty
    /\ now = 0
    /\ Idle
    /\ Constructed
    /\ document \in Fundamental
    /\ Unread

\* document is another element: what was written and read is of the old one.
Becomes(j, member) ==
    /\ Nodes(j) <= MaxNodes
    /\ document' = j
    /\ op' = member
    /\ buff' = ""
    /\ quoted' = TRUE
    /\ outcome' = Undefined
    /\ UNCHANGED <<instances, publishCallback, now, pc, req, rsp, dispatched, invoked,
                   published>>
    /\ UNCHANGED tvars

\* document[name] = x
JsonAssign ==
    \E name \in MemberNames, x \in Assignable :
        /\ Extendable(document)
        /\ Becomes(IndexAssign(document, name, x), "jsonElement::operator[]")

\* document.push_back ( x )
JsonPushBack ==
    \E x \in Assignable :
        /\ Extendable(document)
        /\ push_back(document, x).kind = "value"
        /\ Becomes(push_back(document, x).value, "jsonElement::push_back")

\* document = { document, { name, x } }: an object with the members of both
\* when document is an object, an object with one member, of the name
\* document, when document is a string, an array of the two otherwise.
JsonLiteral ==
    \E name \in MemberNames, x \in Assignable :
        /\ Extendable(document)
        /\ Becomes(InitList(<<document, InitList(<<Str(name), x>>)>>),
                   "jsonElement ( std::initializer_list )")

\* document = { name, document } and document = { jsonElement::array, document }
JsonNest ==
    /\ Extendable(document)
    /\ \/ \E name \in MemberNames :
             Becomes(InitList(<<Str(name), document>>),
                     "jsonElement ( std::initializer_list )")
       \/ Becomes(InitList(<<ArrayFlag, document>>), "jsonElement ( std::initializer_list )")

\* document.serialize ( buff, quoteNames ) with an empty buff
JsonSerialize ==
    /\ op # "jsonElement::serialize"
    /\ \E q \in BOOLEAN :
          /\ quoted' = q
          /\ buff' = serialize(document, q)
    /\ op' = "jsonElement::serialize"
    /\ outcome' = Undefined
    /\ UNCHANGED <<instances, publishCallback, now, pc, req, rsp, dispatched, invoked,
                   published, document>>
    /\ UNCHANGED tvars

\* outcome = jsonParser ( buff.c_str () ) of the text serialize wrote
JsonParse ==
    /\ op = "jsonElement::serialize"
    /\ outcome' = jsonParser(buff)
    /\ op' = "jsonParser ( buff )"
    /\ UNCHANGED <<instances, publishCallback, now, pc, req, rsp, dispatched, invoked,
                   published, document, buff, quoted>>
    /\ UNCHANGED tvars

\* outcome = jsonParser ( text ) of a text from elsewhere, by a program that
\* has built nothing
JsonParseText ==
    /\ document = Null
    /\ \E text \in Texts :
          /\ buff' = text
          /\ outcome' = jsonParser(text)
    /\ op' = "jsonParser ( text )"
    /\ UNCHANGED <<instances, publishCallback, now, pc, req, rsp, dispatched, invoked,
                   published, document, quoted>>
    /\ UNCHANGED tvars

\* document = outcome: the program goes on with the element it parsed
JsonAdopt ==
    /\ op = "jsonParser ( text )"
    /\ outcome.kind = "value"
    /\ Becomes(outcome.value, "jsonElement::operator=")

NextJson ==
    \/ JsonAssign
    \/ JsonPushBack
    \/ JsonLiteral
    \/ JsonNest
    \/ JsonSerialize
    \/ JsonParse
    \/ JsonParseText
    \/ JsonAdopt

SpecJson == InitJson /\ [][NextJson]_vars

\* Every string in the element is of printable ASCII characters.
RECURSIVE Printable(_)
Printable(j) ==
    CASE j.t = "string" -> \A k \in 0..(Len(j.v) - 1) : CharAt(j.v, k) \in Characters
      [] j.t = "object" -> \A name \in DOMAIN j.v : Printable(j.v[name])
      [] j.t = "array"  -> \A k \in 1..Len(j.v) : Printable(j.v[k])
      [] OTHER          -> TRUE

\* The text serialize wrote, with names quoted, has been parsed.
RoundTrip == op = "jsonParser ( buff )" /\ quoted

\* C23: for every element v built from null, booleans, integers, doubles,
\* strings of printable ASCII, arrays and objects of any names, parsing the
\* text serialize writes for v succeeds and gives an element equal to v.
C23_ParseOfSerialize ==
    (RoundTrip /\ Printable(document)) => outcome = Value(document)

\* The double 1.5 is written as 1.500000, of which the parser takes the 1
\* and throws at the point.
C23_DoubleNotParsed ==
    /\ RoundTrip
    /\ document = Double(1500000)
    /\ buff = "1.500000"
    /\ outcome = Throw(CString("invalid json"))

\* a comes before b in the order of the bytes: a is a proper prefix of b, or
\* the first byte in which they differ is less in a.
ByteLess(a, b) ==
    \E k \in 0..Len(a) :
        /\ k <= Len(b)
        /\ SubSeq(a, 1, k) = SubSeq(b, 1, k)
        /\ IF k = Len(a) THEN k < Len(b)
           ELSE k < Len(b) /\ ord(CharAt(a, k)) < ord(CharAt(b, k))

\* C24: however the members of an object came to be (by indexing, by an
\* initializer list, by the parser), serialize writes the members in the
\* order of the bytes of their names, each name once.
C24_NamesInByteOrder ==
    (op = "jsonElement::serialize" /\ document.t = "object") =>
        \E names \in [1..Cardinality(DOMAIN document.v) -> DOMAIN document.v] :
            /\ \A i, k \in DOMAIN names : i < k => ByteLess(names[i], names[k])
            /\ buff = "{" \o Members(document.v, names, TRUE, quoted) \o "}"

\* b was assigned and ab was assigned: ab is written first.
C24_PrefixBeforeLonger ==
    /\ op = "jsonElement::serialize"
    /\ quoted
    /\ document = Object(("b" :> Null) @@ ("ab" :> Int64(-7)))
    /\ buff = "{\"ab\":-7,\"b\":null}"

(***************************************************************************)
(* The ticks of the worker: the mutex, producers that throw, adapters      *)
(* that declare no producer.                                               *)
(***************************************************************************)

\* A tick is in progress: the worker has found the first entry due and has
\* not yet inserted it again.
InTick ==
    \/ worker.pc = "woken" /\ Due(Scheduler, now)
    \/ worker.pc \in {"publish", "extract"}

\* C31: the producer call, the publish and the reschedule of a tick happen
\* with the worker holding telemetryAccess: while a tick is in progress no
\* addTelemetry and no deleteTelemetry runs, the scheduler changes only by
\* the worker's reinsertion, and the tick calls one producer, that of the
\* first entry, which is the same entry from the call to the reinsertion.
C31_TicksSerialized ==
    [][/\ InTick =>
             /\ ~(StartCalled' \/ StopCalled')
             /\ Scheduler' # Scheduler => Fired'
       /\ Ticking' =>
             /\ worker.pc \in {"woken", "publish", "extract"}
             /\ Len(invoked') = 1
             /\ invoked'[1].id = Scheduler[begin(Scheduler)].id
             /\ Len(published') <= 1]_vars

\* The worker is in a tick, the device's telemetry fetched and published
\* and its entry not yet inserted again, while the application's entry is
\* due as well.
C31_SecondSubjectWaits ==
    /\ Publishing
    /\ worker.pc = "extract"
    /\ invoked[1].id = ""
    /\ EntriesOf(Scheduler, "p") # {}
    /\ \A k \in DOMAIN Scheduler : k < now

\* The step called a producer, which threw.
Raised == Producing /\ invoked[1].out.kind = "throw"

\* The worker thread is over: it has left telemetryTask, by a return or by
\* an exception.
WorkerOver == worker.pc \in {"exited", terminate}

\* C32: what a producer throws is not caught: the worker thread ends and
\* publishes no tick of any subject from then on, while the adapter lives
\* on: the entries stay in the scheduler, and telemetry can still be
\* started and stopped, which adds entries to the scheduler and takes them
\* out of it.
C32_WorkerEndsAdapterLives ==
    /\ Raised =>
          /\ WorkerOver
          /\ Scheduler # EmptyMap
          /\ destructor = "alive" => ENABLED TelemetryCall
    /\ WorkerOver => ~Fired /\ published = <<>>

\* The producer of the device's telemetry has thrown while the
\* application's is scheduled too: std::terminate () has been called, both
\* entries are in the scheduler, nobody destroys the adapter.
C32_ProducerThrewProcessOver ==
    /\ Raised
    /\ invoked[1].out = Throw(dabException(500, "oops"))
    /\ worker.pc = terminate
    /\ Cardinality(DOMAIN Scheduler) = 2
    /\ destructor = "alive"
    /\ ~ENABLED TelemetryCall

\* The producer a telemetry start schedules, and what the start throws for
\* an adapter without it.
ProducerOf(call) ==
    IF call = "dabClient::appTelemetryStartInternal" THEN "appTelemetry" ELSE "deviceTelemetry"

NotSupported(call) ==
    IF call = "dabClient::appTelemetryStartInternal"
    THEN Throw(dabException(400, "app telemetry not supported"))
    ELSE Throw(dabException(400, "device telemetry not supported"))

\* The methods the class of the adapter declares.
Declared == Overrides[instances["D1"].T]

\* C33: a telemetry start on an adapter whose class declares no producer of
\* its own fails with 400 "device telemetry not supported" ("app telemetry
\* not supported") and adds no entry: no entry of the scheduler has the
\* producer of dabClient, and the worker never calls it.
C33_StartNeedsProducer ==
    /\ (StartCalled /\ ProducerOf(op) \notin Declared) =>
          /\ rsp = NotSupported(op)
          /\ EntriesOf(Scheduler, CalledFor) = {}
    /\ \A k \in DOMAIN Scheduler : Scheduler[k].callback.func \in Declared
    /\ Producing => invoked[1].callFunc \in Declared

\* The worker of an adapter that declares no method has called
\* dabClient::deviceTelemetry, which throws 501 "unsupported": std::terminate ()
\* has been called.
C33_StubProducerCalled ==
    /\ instances["D1"].T = "Plain"
    /\ Producing
    /\ invoked[1].callFunc = "deviceTelemetry"
    /\ invoked[1].out = Throw(dabException(501, "unsupported"))
    /\ worker.pc = terminate

(***************************************************************************)
(* The publish callback of the bridge and of its adapters.                 *)
(***************************************************************************)

\* C34: once setPublishCallback ( f ) has been called on the bridge, every
\* adapter in the registry publishes through f, whenever makeDeviceInstance
\* made it, and no publish finds a callback that was not set: the fan-out
\* of dab/discovery does not call an empty publishCallback, and an adapter
\* whose worker may tick has f.
C34_CallbackReachesEveryAdapter ==
    publishCallback # empty =>
        /\ \A id \in DOMAIN instances : instances[id].publishCallback = publishCallback
        /\ rsp # Throw(BadFunctionCall)

\* setPublishCallback ( f ) came before makeDeviceInstance: the adapter has
\* no callback, and its telemetry has been started through the bridge.
C34_LateAdapterWithoutCallback ==
    /\ publishCallback = "f"
    /\ "D1" \in DOMAIN instances
    /\ instances["D1"].publishCallback = empty
    /\ instances["D1"].telemetryScheduler # EmptyMap
    /\ BridgeCalled
    /\ rsp = Value(Object(("duration" :> Int64(1)) @@ ("status" :> Int64(200))))

(***************************************************************************)
(* The parser: names that are not quoted, and numbers.                     *)
(***************************************************************************)

isLetter(c) ==
    /\ c \in Characters
    /\ \/ Code(c) >= 97 /\ Code(c) <= 122
       \/ Code(c) >= 65 /\ Code(c) <= 90

\* name matches [A-Za-z_][A-Za-z0-9_]*
IsIdentifier(name) ==
    /\ Len(name) >= 1
    /\ isLetter(CharAt(name, 0)) \/ CharAt(name, 0) = "_"
    /\ \A k \in 1..(Len(name) - 1) :
          isLetter(CharAt(name, k)) \/ isDigit(CharAt(name, k)) \/ CharAt(name, k) = "_"

\* A text was given to jsonParser.
TextParsed(text) == op = "jsonParser ( text )" /\ buff = text

\* C35: the parser takes an object name that is not quoted exactly when the
\* name matches [A-Za-z_][A-Za-z0-9_]*, and the member has the whole
\* identifier as its name: { a1 : 1 } gives an object with the member a1,
\* { _k2 : 1 } one with the member _k2, and a name that is no identifier
\* makes the parser throw.
C35_UnquotedIdentifierIsName ==
    \A name \in UnquotedKeys :
        TextParsed(Keyed(name)) =>
            IF IsIdentifier(name)
            THEN outcome = Value(Object(name :> Int64(1)))
            ELSE outcome.kind = "throw"

\* { a1 : 1 } has been parsed: the name ends before the digit, where the
\* parser wants the colon.
C35_DigitEndsName ==
    /\ TextParsed("{a1:1}")
    /\ outcome = Throw(CString("missing name/value separator"))

\* The values of the number texts: a double for a text with a point or an
\* e, an integer for a text with neither.
Lexed ==
    ("12" :> Int64(12)) @@ ("-3" :> Int64(-3)) @@ ("+3" :> Int64(3)) @@ ("0" :> Int64(0))
    @@ ("1.5" :> Double(1500000)) @@ ("2e3" :> Double(2000 * Million))
    @@ ("-2.5e-3" :> Double(-2500))
    @@ ("[1.5]" :> Array(<<Double(1500000)>>))
    @@ ("[2e3, 12]" :> Array(<<Double(2000 * Million), Int64(12)>>))

\* C36: the parser reads a number as a sign, digits, a point and an e: a
\* number text with a point or an e (1.5, 2e3) is read as one token and
\* gives a double, a number text with neither gives an integer.
C36_NumbersLexed ==
    \A text \in NumberTexts : TextParsed(text) => outcome = Value(Lexed[text])

\* 2e3 has been parsed: the token ends before the e, and jsonParser finds
\* text after the value.
C36_ExponentEndsToken ==
    /\ TextParsed("2e3")
    /\ outcome = Throw(CString("invalid json"))

(***************************************************************************)
(* The status of an adapter's response.                                    *)
(***************************************************************************)

\* The call returned an object with the status 200.
Status200 ==
    /\ rsp.kind = "value"
    /\ rsp.value.t = "object"
    /\ "status" \in DOMAIN rsp.value.v
    /\ rsp.value.v["status"] = Int64(200)

\* C37: an adapter's dispatch answers with status 200 only when the topic
\* of the envelope is an operation of the adapter's dispatch map and the
\* method of that operation was called and returned; an envelope with a
\* topic that is no key of the map is answered with an error status.
C37_OkOnlyAfterHandler ==
    (AdapterCalled /\ Status200) =>
        /\ TopicFound
        /\ Len(invoked) = 1
        /\ invoked[1].callFunc = Descriptor.callFunc
        /\ invoked[1].out.kind = "value"

\* dab/D1/nope is no operation of the adapter: no method was called, and the
\* answer is { "status": 200 }.
C37_UnknownOperationOk ==
    /\ AdapterCalled
    /\ req = Object("topic" :> Str("dab/D1/nope"))
    /\ invoked = <<>>
    /\ rsp = Value(Object("status" :> Int64(200)))

(***************************************************************************)
(* The subjects of the scheduler.                                          *)
(***************************************************************************)

\* The subjectIds that have an entry.
Ids(scheduler) == {scheduler[k].id : k \in DOMAIN scheduler}

\* The entries of the scheduler, without their keys.
Entries(scheduler) == {scheduler[k] : k \in DOMAIN scheduler}

\* C38: the subjects of the scheduler change by addTelemetry and
\* deleteTelemetry only: addTelemetry ( X ) returns with X among them and
\* the others as they were, deleteTelemetry ( X ) takes X out, and a tick of
\* the worker, which extracts the first entry and inserts it again, leaves
\* as many entries as there were, the same ones, one for each subject,
\* whatever their keys are.
C38_SubjectsChangeByCallsOnly ==
    [][/\ StartCalled' => Ids(Scheduler') = Ids(Scheduler) \cup {CalledFor'}
       /\ StopCalled' => Ids(Scheduler') = Ids(Scheduler) \ {CalledFor'}
       /\ ~(StartCalled' \/ StopCalled') => Ids(Scheduler') = Ids(Scheduler)
       /\ Fired' =>
             /\ Cardinality(DOMAIN Scheduler') = Cardinality(DOMAIN Scheduler)
             /\ Entries(Scheduler') = Entries(Scheduler)
             /\ \A id \in Ids(Scheduler') : Cardinality(EntriesOf(Scheduler', id)) = 1]_vars

\* Two subjects were scheduled and none was stopped; the tick of the
\* application's entry has ended, and the device is the only subject left.
C38_TickTookSubjectOut ==
    /\ Fired
    /\ invoked[1].id = "p"
    /\ invoked[1].out.kind = "value"
    /\ Ids(Scheduler) = {""}
    /\ stopped = {}
    /\ worker.pc = "while"

\* The subject has an entry for a time the clock, which is followed to
\* MaxTime, does not pass.
BeyondTheClock(id) == \E k \in EntriesOf(Scheduler, id) : k >= MaxTime

\* The clock readings.
Times == 0..MaxTime

\* C39: with the threads scheduled, the clock advancing and producers that
\* return, a tick of a subject is followed by another tick of the subject,
\* however many subjects are scheduled and whatever telemetry is started
\* and stopped meanwhile, unless the subject is stopped, the adapter is
\* destroyed, or the subject's next time is one the clock does not pass.
C39_FiredAgain ==
    \A id \in SubjectIds, t \in Times :
        (FiredFor(id) /\ now = t) ~>
            \/ FiredFor(id) /\ now > t
            \/ BeyondTheClock(id)
            \/ id \in stopped
            \/ destructor # "alive"
            \/ ~Running(worker)

\* The tick of the device's entry has ended with the application's entry
\* in the scheduler and no entry of the device: nothing has stopped the
\* device's telemetry, the adapter lives, the worker goes on.
C39_NoNextTick ==
    /\ FiredFor("")
    /\ Ids(Scheduler) = {"p"}
    /\ stopped = {}
    /\ destructor = "alive"
    /\ worker.pc = "while"
    /\ now < MaxTime

\* C40: on a bridge whose registry is empty, dispatch of dab/discovery
\* completes, with a response or with a typed error, without stepping past
\* or dereferencing a position of the registry and without calling the
\* publish callback.
C40_EmptyRegistryCompletes ==
    (DiscoveryCalled /\ instances = EmptyMap) =>
        /\ rsp.kind \in {"value", "throw"}
        /\ rsp.kind = "throw" => rsp.ex.what = "dabException"
        /\ invoked = <<>>
        /\ published = <<>>

\* What the branch does with no adapter: it++ on begin() = end(), and then
\* begin()->second is dereferenced; the behaviour is undefined.
C40_EmptyRegistryUndefined ==
    /\ DiscoveryCalled
    /\ instances = EmptyMap
    /\ rsp = Undefined
====
